---- MODULE Spec2Model ----
(***************************************************************************)
(* A model of the function SDK's request/response accessor layer and of    *)
(* its v1beta1 compatibility shim.                                         *)
(*                                                                         *)
(* The module holds several specifications over one set of variables:      *)
(*   SpecInt   GetInteger on a composite/composed resource document        *)
(*   SpecDiag  the result and condition builders of a response             *)
(*   SpecGet   extraction of the composite and composed resources          *)
(*   SpecFields the required resources and the credentials of a request    *)
(*   SpecAsm   response.To and the assembly of the desired state           *)
(*   SpecBeta  BetaServer.RunFunction, step by step                        *)
(*   SpecRefs  the reference setters of a composite resource               *)
(*   SpecFrom  composed.From                                               *)
(*   SpecCopy  DeepCopy of a resource and writes to either side            *)
(*   SpecInput request.GetInput into a typed or a document-backed object   *)
(*   SpecCtx   the context of a request and of the response made from it   *)
(*   SpecConc  two calls of BetaServer.RunFunction, interleaved            *)
(*   SpecTrip  the desired composed resources read and written back        *)
(***************************************************************************)
EXTENDS Integers, Sequences, FiniteSets, TLC

(***************************************************************************)
(* Values of a document.  Every value is a record [k, c, n]:               *)
(*   k  the Go dynamic type of the value (or the oneof case of a wire      *)
(*      structpb.Value),                                                   *)
(*   c  for a float64, its class: "fin" (finite and within the int64       *)
(*      range), "posbig" (above the int64 range, +Inf included), "negbig"  *)
(*      (below it), "nan",                                                 *)
(*   n  the payload: an int64 is its value, a finite float64 is counted in *)
(*      thousandths (9.001 is 9001, 10e3 is 10000000, -9.9 is -9900), a    *)
(*      string is an index into some table of strings, a bool is 0 or 1.  *)
(***************************************************************************)
Val(k, c, n) == [k |-> k, c |-> c, n |-> n]

Absent == Val("absent", "fin", 0)

\* int64 values in a map[string]any, as a Kubernetes JSON/YAML decoder leaves them.
Int64s == {Val("int64", "fin", n) : n \in {-9, 0, 9001}}

\* float64 values: 9.001, 10e3, -9.9, 9001.0, -0.5, 1e30, -1e30, NaN.
FiniteFloats == {Val("float64", "fin", n) : n \in {9001, 10000000, -9900, 9001000, -500}}

HugeFloats == {Val("float64", "posbig", 0), Val("float64", "negbig", 0), Val("float64", "nan", 0)}

Float64s == FiniteFloats \cup HugeFloats

\* Values that are no number: a string ("foo"), a bool, a nil.
NonNumbers == {Val("string", "fin", 1), Val("bool", "fin", 1), Val("nil", "fin", 0)}

\* What a Kubernetes decoder (yaml.Unmarshal into an Unstructured) can leave in
\* a document: whole literals as int64, the others as float64.
NativeValues == Int64s \cup Float64s \cup NonNumbers

\* The paths the model reads and writes.
Paths == {"spec.widgets", "spec.other"}

Docs(values) == [Paths -> values \cup {Absent}]

EmptyDoc == [p \in Paths |-> Absent]

(***************************************************************************)
(* The wire struct (structpb.Struct): every number is a double.            *)
(***************************************************************************)
WireNumbers == {Val("number_value", f.c, f.n) : f \in Float64s}

WireValues == WireNumbers \cup {Val("string_value", "fin", 1), Val("bool_value", "fin", 1),
                                Val("null_value", "fin", 0)}

\* structpb.Value.AsInterface: the Go value of a wire value.
AsInterface(v) ==
    CASE v.k = "number_value" -> Val("float64", v.c, v.n)
      [] v.k = "string_value" -> Val("string", v.c, v.n)
      [] v.k = "bool_value"   -> Val("bool", v.c, v.n)
      [] v.k = "null_value"   -> Val("nil", v.c, v.n)
      [] OTHER                -> v

\* structpb.Struct.AsMap: a map[string]any of the fields' Go values.
AsMap(s) == [p \in Paths |-> AsInterface(s[p])]

VARIABLES
    xr,          \* SpecInt: the Object of the resource GetInteger reads
    origin,      \* SpecInt: how xr was filled: "new", "native" or "wire"
    gi,          \* SpecInt: the last GetInteger call: [path, value, i, err]
    results,     \* SpecDiag: rsp.Results
    conditions,  \* SpecDiag: rsp.Conditions
    rhandles,    \* SpecDiag: the results a *ResultOption was returned for (by index)
    chandles,    \* SpecDiag: the conditions a *ConditionOption was returned for
    rcalls,      \* SpecDiag: the result builder calls so far, in call order
    ccalls,      \* SpecDiag: the condition builder calls so far, in call order
    req,         \* SpecGet, SpecAsm, SpecFields: the RunFunctionRequest: [tag, observed,
                 \*   desired, context, extra, required, credentials]
    st,          \* SpecGet, SpecAsm: the State messages, by the pointer that reaches them
    snap,        \* SpecGet, SpecAsm: st as the request arrived (never written afterwards)
    rsp,         \* SpecAsm: the RunFunctionResponse: [made, tag, ttl, desired, context]
    ret,         \* SpecAsm: the last assembly call: [op, arg, err]
    got,         \* SpecGet, SpecFields: the last extraction call: [op, m, xr, err], m the
                 \*   mapping or the credentials returned, xr the composite returned
    bpc,         \* SpecBeta: where BetaServer.RunFunction stands
    breq,        \* SpecBeta: the v1beta1 request it was called with
    bwire,       \* SpecBeta: b, the protobuf bytes of the last Marshal
    gareq,       \* SpecBeta: the v1 request the wrapped server is called with
    garsp,       \* SpecBeta: what the wrapped server returned: [called, rsp, err]
    bret,        \* SpecBeta: what RunFunction returned: [rsp, err]
    res,         \* SpecRefs, SpecFrom, SpecCopy: the document of a resource
    cpy,         \* SpecCopy: the document of a second resource
    ocall,       \* SpecRefs, SpecFrom, SpecCopy: the last call on the resource
    heap,        \* SpecCopy: the maps the documents are made of, by address
    ctx          \* SpecCtx: the Fields of the context structs, by the pointer that
                 \*   reaches them

varsInt == <<xr, origin, gi>>

varsDiag == <<results, conditions, rhandles, chandles, rcalls, ccalls>>

varsReq == <<req, st, snap, rsp, ret, got>>

varsBeta == <<bpc, breq, bwire, gareq, garsp, bret>>

varsObj == <<res, cpy, ocall, heap>>

varsCtx == <<ctx>>

vars == <<varsInt, varsDiag, varsReq, varsBeta, varsObj, varsCtx>>

\* What the actions of one specification leave alone.
offInt == <<varsDiag, varsReq, varsBeta, varsObj, varsCtx>>

offDiag == <<varsInt, varsReq, varsBeta, varsObj, varsCtx>>

offReq == <<varsInt, varsDiag, varsBeta, varsObj, varsCtx>>

offBeta == <<varsInt, varsDiag, varsReq, varsObj, varsCtx>>

offObj == <<varsInt, varsDiag, varsReq, varsBeta, varsCtx>>

offCtx == <<varsInt, varsDiag, varsBeta, varsObj>>

(***************************************************************************)
(* Errors.  An error is a record [kind, path]; NoErr is Go's nil error.     *)
(***************************************************************************)
Err(kind, path) == [kind |-> kind, path |-> path]

NoErr == Err("nil", "")

(***************************************************************************)
(* fieldpath.Paved, as the resource types call it.                         *)
(***************************************************************************)
\* Paved.GetValue: the value at path, or a not-found error.
PavedGetValue(obj, path) ==
    IF obj[path] = Absent
    THEN [v |-> Absent, err |-> Err("NotFound", path)]
    ELSE [v |-> obj[path], err |-> NoErr]

\* Paved.GetInteger: the int64 at path; "<path>: not a (int64) number" for any
\* other dynamic type, and GetValue's error for an absent path.
PavedGetInteger(obj, path) ==
    LET g == PavedGetValue(obj, path) IN
    IF g.err # NoErr THEN [i |-> Val("int64", "fin", 0), err |-> g.err]
    ELSE IF g.v.k # "int64" THEN [i |-> Val("int64", "fin", 0), err |-> Err("NotInt64", path)]
    ELSE [i |-> g.v, err |-> NoErr]

\* getNumber: the float64 at path; "<path>: not a (float64) number" otherwise.
getNumber(obj, path) ==
    LET g == PavedGetValue(obj, path) IN
    IF g.err # NoErr THEN [f |-> Val("float64", "fin", 0), err |-> g.err]
    ELSE IF g.v.k # "float64" THEN [f |-> Val("float64", "fin", 0), err |-> Err("NotFloat64", path)]
    ELSE [f |-> g.v, err |-> NoErr]

\* Truncation toward zero of a count of thousandths.
TruncZero(n) == IF n >= 0 THEN n \div 1000 ELSE -((-n) \div 1000)

MinInt64 == Val("int64", "min", 0)

MaxInt64 == Val("int64", "max", 0)

\* Go's conversion int64(f64).  A finite value within range is truncated toward
\* zero.  For a value the int64 cannot represent the language leaves the result
\* to the implementation: amd64 yields the minimum int64 for every such value,
\* arm64 saturates and yields 0 for a NaN.
ConvInt64(f) ==
    IF f.c = "fin" THEN {Val("int64", "fin", TruncZero(f.n))}
    ELSE {MinInt64, MaxInt64, Val("int64", "fin", 0)}

\* GetInteger with the float fallback's error returned when both extractions fail.
GetIntegerOutcomesFloatErr(obj, path) ==
    LET first == PavedGetInteger(obj, path)
        second == getNumber(obj, path)
    IN  IF first.err = NoErr THEN {[i |-> first.i, err |-> NoErr]}
        ELSE IF second.err = NoErr THEN {[i |-> i, err |-> NoErr] : i \in ConvInt64(second.f)}
        ELSE {[i |-> Val("int64", "fin", 0), err |-> second.err]}

\* Unstructured.GetInteger, composite and composed alike: the results it can
\* return for obj and path.
GetIntegerOutcomes(obj, path) ==
    LET first == PavedGetInteger(obj, path)
        second == getNumber(obj, path)
    IN  IF first.err = NoErr THEN {[i |-> first.i, err |-> NoErr]}
        ELSE IF second.err = NoErr THEN {[i |-> i, err |-> NoErr] : i \in ConvInt64(second.f)}
        ELSE {[i |-> Val("int64", "fin", 0), err |-> first.err]}

NoCall == [path |-> "", value |-> Absent, i |-> Val("int64", "fin", 0), err |-> NoErr]

IdleInt ==
    /\ xr = EmptyDoc
    /\ origin = "new"
    /\ gi = NoCall

IdleDiag ==
    /\ results = <<>>
    /\ conditions = <<>>
    /\ rhandles = {}
    /\ chandles = {}
    /\ rcalls = <<>>
    /\ ccalls = <<>>

(***************************************************************************)
(* The messages of a request and a response.  A pointer the code can find  *)
(* nil carries an isnil flag; a getter on a nil message returns the zero   *)
(* value, as the generated getters do.                                     *)
(***************************************************************************)
\* *structpb.Struct
NilStruct == [isnil |-> TRUE, fields |-> EmptyDoc]

StructOf(d) == [isnil |-> FALSE, fields |-> d]

\* The Ready enum of the wire.
WireReady == {"READY_UNSPECIFIED", "READY_TRUE", "READY_FALSE"}

\* *v1.Resource: the wire struct, the connection details ("nil", "empty" or
\* "some" entries) and the readiness.
NilResource == [isnil |-> TRUE, resource |-> NilStruct, cd |-> "nil", ready |-> "READY_UNSPECIFIED"]

Resource(s, cd, ready) == [isnil |-> FALSE, resource |-> s, cd |-> cd, ready |-> ready]

\* The names of composed resources.
Names == {"a", "b"}

\* A Go map keyed by composed-resource name: nil, or its entries.
EmptyKV == [n \in {} |-> NilResource]

NilMap == [isnil |-> TRUE, kv |-> EmptyKV]

EmptyMap == [isnil |-> FALSE, kv |-> EmptyKV]

MapOf(kv) == [isnil |-> FALSE, kv |-> kv]

MapPut(m, name, v) ==
    MapOf([n \in (DOMAIN m.kv) \cup {name} |-> IF n = name THEN v ELSE m.kv[n]])

\* &v1.State{}
EmptyState == [composite |-> NilResource, resources |-> NilMap]

\* The wire structs a request carries: {spec: {widgets: 9001}}, {} and none.
WidgetsStruct == StructOf([EmptyDoc EXCEPT !["spec.widgets"] = Val("number_value", "fin", 9001000)])

\* The resources a request carries.
WidgetsResource == Resource(WidgetsStruct, "some", "READY_TRUE")

EmptyResource == Resource(StructOf(EmptyDoc), "nil", "READY_FALSE")

BareResource == Resource(NilStruct, "nil", "READY_UNSPECIFIED")

ReqResources == {WidgetsResource, EmptyResource, BareResource}

\* The resources maps of a decoded request: a map with no entry decodes to nil.
ReqMaps ==
    {NilMap} \cup
    {MapOf(kv) : kv \in UNION {[S -> ReqResources] : S \in (SUBSET Names) \ {{}}}}

\* The State messages of a decoded request.
ReqStates == [composite : {NilResource} \cup ReqResources, resources : ReqMaps]

\* The State pointers: nil, the request's two states, and a State the assembly
\* functions allocate.
Heap(observed, desired, fresh) == [reqObserved |-> observed, reqDesired |-> desired, fresh |-> fresh]

\* A request that carries no required resources and no credentials.
Request(tag, observed, desired, context) ==
    [tag |-> tag, observed |-> observed, desired |-> desired, context |-> context,
     extra |-> NilMap, required |-> NilMap, credentials |-> NilMap]

\* The response before response.To made it.
NoRsp == [made |-> FALSE, tag |-> "", ttl |-> [seconds |-> 0, nanos |-> 0],
          desired |-> "nil", context |-> "nil"]

\* No assembly call yet; arg is the argument of the call next to rsp.
NoRet == [op |-> "", arg |-> 0, err |-> NoErr]

\* A nil *resource.Composite.
NilComposite == [isnil |-> TRUE, resource |-> EmptyDoc, cd |-> "nil"]

NoGot == [op |-> "", m |-> NilMap, xr |-> NilComposite, err |-> NoErr]

IdleReq ==
    /\ req = Request("", "nil", "nil", "nil")
    /\ st = Heap(EmptyState, EmptyState, EmptyState)
    /\ snap = st
    /\ rsp = NoRsp
    /\ ret = NoRet
    /\ got = NoGot

(***************************************************************************)
(* Protobuf messages as the compatibility shim sees them: the set of       *)
(* populated fields, the tags of the fields its schema does not know, and  *)
(* the form of the content: "ok", "badutf8" (a string field that is not    *)
(* valid UTF-8), "deep" (nested beyond the decoder's recursion limit) or   *)
(* "partial" (what a failed Unmarshal left behind).                        *)
(***************************************************************************)
Msg(set, unknown, form) == [isnil |-> FALSE, set |-> set, unknown |-> unknown, form |-> form]

NilMsg == [isnil |-> TRUE, set |-> {}, unknown |-> {}, form |-> "ok"]

PartialMsg == Msg({}, {}, "partial")

NoBytes == [tags |-> {}, deep |-> FALSE]

NotCalled == [called |-> FALSE, rsp |-> NilMsg, err |-> NoErr]

NotReturned == [rsp |-> NilMsg, err |-> NoErr]

IdleBeta ==
    /\ bpc = "idle"
    /\ breq = NilMsg
    /\ bwire = NoBytes
    /\ gareq = NilMsg
    /\ garsp = NotCalled
    /\ bret = NotReturned

\* No resource is at hand.
NoObj == [kind |-> "none"]

NoObjCall == [op |-> "", arg |-> 0, err |-> NoErr]

IdleObj ==
    /\ res = NoObj
    /\ cpy = NoObj
    /\ ocall = NoObjCall
    /\ heap = <<>>

\* No context struct is at hand.
IdleCtx == ctx = [reqContext |-> NilMap, fresh |-> NilMap]

InitInt == IdleInt /\ IdleDiag /\ IdleReq /\ IdleBeta /\ IdleObj /\ IdleCtx

\* yaml.Unmarshal(manifest, xr): the document as a Kubernetes decoder leaves it.
LoadNative ==
    \E d \in Docs(NativeValues) :
        /\ xr' = d
        /\ origin' = "native"
        /\ gi' = NoCall
        /\ UNCHANGED offInt

\* GetObservedCompositeResource / AsObject: the document taken from a wire struct.
LoadWire ==
    \E s \in Docs(WireValues) :
        /\ xr' = AsMap(s)
        /\ origin' = "wire"
        /\ gi' = NoCall
        /\ UNCHANGED offInt

GetInteger ==
    \E path \in Paths :
        \E r \in GetIntegerOutcomes(xr, path) :
            /\ gi' = [path |-> path, value |-> xr[path], i |-> r.i, err |-> r.err]
            /\ UNCHANGED <<xr, origin>>
            /\ UNCHANGED offInt

NextInt == LoadNative \/ LoadWire \/ GetInteger

SpecInt == InitInt /\ [][NextInt]_vars

(***************************************************************************)
(* GetInteger: the claims.                                                 *)
(***************************************************************************)
\* The integer a value stands for, as a class and a payload: an int64 is itself,
\* a float64 is its truncation toward zero (which no int64 equals when the float
\* is above or below the int64 range or is a NaN).
MathInt(i) == [c |-> i.c, n |-> i.n]

MathTrunc(f) == [c |-> f.c, n |-> IF f.c = "fin" THEN TruncZero(f.n) ELSE 0]

\* C6: GetInteger returns a stored int64 unchanged and returns any stored float64
\* truncated toward zero, with a nil error in both cases.
C6_GetIntegerTruncates ==
    gi.path # "" =>
        /\ gi.value.k = "int64" => (gi.i = gi.value /\ gi.err = NoErr)
        /\ gi.value.k = "float64" => (gi.err = NoErr /\ MathInt(gi.i) = MathTrunc(gi.value))

\* GetInteger read a float64 that no int64 can represent and returned a nil error.
C6_HugeFloatRead == gi.path # "" /\ gi.value \in HugeFloats /\ gi.err = NoErr

\* What does hold: an int64 is returned unchanged, and a float64 within the int64
\* range is returned truncated toward zero (9.001 is 9, 10e3 is 10000, -9.9 is -9),
\* also when it came through the wire struct (9001.0 is 9001).
GetIntegerInRange ==
    gi.path # "" =>
        /\ gi.value.k = "int64" => (gi.i = gi.value /\ gi.err = NoErr)
        /\ (gi.value.k = "float64" /\ gi.value.c = "fin") =>
               (gi.err = NoErr /\ gi.i = Val("int64", "fin", TruncZero(gi.value.n)))
        /\ (gi.value = Val("float64", "fin", 9001) => gi.i.n = 9)
        /\ (gi.value = Val("float64", "fin", 10000000) => gi.i.n = 10000)
        /\ (gi.value = Val("float64", "fin", -9900) => gi.i.n = -9)
        /\ (origin = "wire" /\ gi.value = Val("float64", "fin", 9001000) => gi.i.n = 9001)

\* C7: when the value at path is neither an int64 nor a float64, GetInteger
\* returns 0 and the error of the integer extraction ("<path>: not a (int64)
\* number"); when the path is absent it returns 0 and the lookup's not-found error.
C7_GetIntegerError ==
    (gi.path # "" /\ gi.value.k \notin {"int64", "float64"}) =>
        /\ gi.i = Val("int64", "fin", 0)
        /\ gi.err = IF gi.value = Absent THEN Err("NotFound", gi.path)
                                          ELSE Err("NotInt64", gi.path)

\* GetInteger was called on a path that holds a string.
C7_StringRead == gi.path # "" /\ gi.value.k = "string" /\ gi.err.kind = "NotInt64"

(***************************************************************************)
(* Results and conditions of a response (SpecDiag).                        *)
(*                                                                         *)
(* An optional field (a Go pointer) is <<>> when nil and <<x>> when set.   *)
(* A message is a sequence of strings: <<text>>, or <<format, argument>>   *)
(* for what fmt.Sprintf made of a format and its argument.                 *)
(***************************************************************************)
None == <<>>

Some(x) == <<x>>

\* The most results and conditions together that one response collects here.
MaxRecords == 2

Messages == {"this is a test result"}

Formats == {"this is a test %s result"}

FormatArgs == {"formatted"}

Reasons == {"TestReason"}

ConditionTypes == {"DatabaseReady", "FunctionSuccess"}

ConditionReasons == {"ReasonAvailable"}

ConditionMessages == {"a test message"}

Sprintf(format, a) == <<format, a>>

Result(s, message) ==
    [severity |-> s, message |-> message, reason |-> None, target |-> Some("TARGET_COMPOSITE")]

\* newResult with the default target left out.
newResultNoTarget(rs, s, message) ==
    Append(rs, [Result(s, message) EXCEPT !.target = None])

\* newResult putting the new result in front of the others.
newResultPrepend(rs, s, message) == <<Result(s, message)>> \o rs

\* newResult: rsp.Results with a new result of severity s appended.
newResult(rs, s, message) == Append(rs, Result(s, message))

Condition(type, status, reason) ==
    [type |-> type, status |-> status, reason |-> reason, message |-> None,
     target |-> Some("TARGET_COMPOSITE")]

\* A condition builder that replaces an earlier condition of the same type.
newConditionUpsert(cs, type, status, reason) ==
    IF \E i \in 1..Len(cs) : cs[i].type = type
    THEN [i \in 1..Len(cs) |-> IF cs[i].type = type THEN Condition(type, status, reason) ELSE cs[i]]
    ELSE Append(cs, Condition(type, status, reason))

\* ConditionTrue / ConditionFalse / ConditionUnknown: rsp.Conditions with a new
\* condition appended.
newCondition(cs, type, status, reason) == Append(cs, Condition(type, status, reason))

Room == Len(results) + Len(conditions) < MaxRecords

RCall(fn, message) == [fn |-> fn, message |-> message, target |-> "none"]

CCall(fn, type, reason) == [fn |-> fn, type |-> type, reason |-> reason, target |-> "none"]

\* A Fatal that hands out a handle on its result, as the other builders do.
FatalReturnsHandle ==
    /\ Room
    /\ \E m \in Messages :
        /\ results' = newResult(results, "SEVERITY_FATAL", <<m>>)
        /\ rcalls' = Append(rcalls, RCall("Fatal", <<m>>))
    /\ rhandles' = rhandles \cup {Len(results')}
    /\ UNCHANGED <<conditions, chandles, ccalls>>
    /\ UNCHANGED offDiag

\* Fatal(rsp, err): no handle is returned.
Fatal ==
    /\ Room
    /\ \E m \in Messages :
        /\ results' = newResult(results, "SEVERITY_FATAL", <<m>>)
        /\ rcalls' = Append(rcalls, RCall("Fatal", <<m>>))
    /\ UNCHANGED <<conditions, rhandles, chandles, ccalls>>
    /\ UNCHANGED offDiag

Warning ==
    /\ Room
    /\ \E m \in Messages :
        /\ results' = newResult(results, "SEVERITY_WARNING", <<m>>)
        /\ rcalls' = Append(rcalls, RCall("Warning", <<m>>))
    /\ rhandles' = rhandles \cup {Len(results')}
    /\ UNCHANGED <<conditions, chandles, ccalls>>
    /\ UNCHANGED offDiag

Normal ==
    /\ Room
    /\ \E m \in Messages :
        /\ results' = newResult(results, "SEVERITY_NORMAL", <<m>>)
        /\ rcalls' = Append(rcalls, RCall("Normal", <<m>>))
    /\ rhandles' = rhandles \cup {Len(results')}
    /\ UNCHANGED <<conditions, chandles, ccalls>>
    /\ UNCHANGED offDiag

\* Normalf(rsp, format, a...) is Normal(rsp, fmt.Sprintf(format, a...)).
Normalf ==
    /\ Room
    /\ \E f \in Formats, a \in FormatArgs :
        /\ results' = newResult(results, "SEVERITY_NORMAL", Sprintf(f, a))
        /\ rcalls' = Append(rcalls, RCall("Normalf", Sprintf(f, a)))
    /\ rhandles' = rhandles \cup {Len(results')}
    /\ UNCHANGED <<conditions, chandles, ccalls>>
    /\ UNCHANGED offDiag

\* (*ResultOption).TargetComposite
ResultTargetComposite ==
    /\ \E h \in rhandles :
        /\ results' = [results EXCEPT ![h].target = Some("TARGET_COMPOSITE")]
        /\ rcalls' = [rcalls EXCEPT ![h].target = "TargetComposite"]
    /\ UNCHANGED <<conditions, rhandles, chandles, ccalls>>
    /\ UNCHANGED offDiag

\* (*ResultOption).TargetCompositeAndClaim
ResultTargetCompositeAndClaim ==
    /\ \E h \in rhandles :
        /\ results' = [results EXCEPT ![h].target = Some("TARGET_COMPOSITE_AND_CLAIM")]
        /\ rcalls' = [rcalls EXCEPT ![h].target = "TargetCompositeAndClaim"]
    /\ UNCHANGED <<conditions, rhandles, chandles, ccalls>>
    /\ UNCHANGED offDiag

\* A WithReason whose handles all share one record of options: the reason lands
\* on every result.
ResultWithReasonShared ==
    /\ \E h \in rhandles, reason \in Reasons :
        results' = [i \in 1..Len(results) |-> [results[i] EXCEPT !.reason = Some(reason)]]
    /\ UNCHANGED <<conditions, rhandles, chandles, rcalls, ccalls>>
    /\ UNCHANGED offDiag

\* (*ResultOption).WithReason
ResultWithReason ==
    /\ \E h \in rhandles, reason \in Reasons :
        results' = [results EXCEPT ![h].reason = Some(reason)]
    /\ UNCHANGED <<conditions, rhandles, chandles, rcalls, ccalls>>
    /\ UNCHANGED offDiag

ConditionBuilder(fn, status) ==
    /\ Room
    /\ \E type \in ConditionTypes, reason \in ConditionReasons :
        /\ conditions' = newCondition(conditions, type, status, reason)
        /\ ccalls' = Append(ccalls, CCall(fn, type, reason))
    /\ chandles' = chandles \cup {Len(conditions')}
    /\ UNCHANGED <<results, rhandles, rcalls>>
    /\ UNCHANGED offDiag

ConditionTrue == ConditionBuilder("ConditionTrue", "STATUS_CONDITION_TRUE")

ConditionFalse == ConditionBuilder("ConditionFalse", "STATUS_CONDITION_FALSE")

ConditionUnknown == ConditionBuilder("ConditionUnknown", "STATUS_CONDITION_UNKNOWN")

\* (*ConditionOption).TargetComposite
ConditionTargetComposite ==
    /\ \E h \in chandles :
        /\ conditions' = [conditions EXCEPT ![h].target = Some("TARGET_COMPOSITE")]
        /\ ccalls' = [ccalls EXCEPT ![h].target = "TargetComposite"]
    /\ UNCHANGED <<results, rhandles, chandles, rcalls>>
    /\ UNCHANGED offDiag

\* (*ConditionOption).TargetCompositeAndClaim
ConditionTargetCompositeAndClaim ==
    /\ \E h \in chandles :
        /\ conditions' = [conditions EXCEPT ![h].target = Some("TARGET_COMPOSITE_AND_CLAIM")]
        /\ ccalls' = [ccalls EXCEPT ![h].target = "TargetCompositeAndClaim"]
    /\ UNCHANGED <<results, rhandles, chandles, rcalls>>
    /\ UNCHANGED offDiag

\* (*ConditionOption).WithMessage
ConditionWithMessage ==
    /\ \E h \in chandles, m \in ConditionMessages :
        conditions' = [conditions EXCEPT ![h].message = Some(m)]
    /\ UNCHANGED <<results, rhandles, chandles, rcalls, ccalls>>
    /\ UNCHANGED offDiag

InitDiag == IdleInt /\ IdleDiag /\ IdleReq /\ IdleBeta /\ IdleObj /\ IdleCtx

NextDiag ==
    \/ Fatal
    \/ Warning
    \/ Normal
    \/ Normalf
    \/ ResultTargetComposite
    \/ ResultTargetCompositeAndClaim
    \/ ResultWithReason
    \/ ConditionTrue
    \/ ConditionFalse
    \/ ConditionUnknown
    \/ ConditionTargetComposite
    \/ ConditionTargetCompositeAndClaim
    \/ ConditionWithMessage

SpecDiag == InitDiag /\ [][NextDiag]_vars

(***************************************************************************)
(* Results and conditions: the claims.                                     *)
(***************************************************************************)
SeverityOf(fn) ==
    CASE fn = "Fatal"   -> "SEVERITY_FATAL"
      [] fn = "Warning" -> "SEVERITY_WARNING"
      [] OTHER          -> "SEVERITY_NORMAL"

StatusOf(fn) ==
    CASE fn = "ConditionTrue"  -> "STATUS_CONDITION_TRUE"
      [] fn = "ConditionFalse" -> "STATUS_CONDITION_FALSE"
      [] OTHER                 -> "STATUS_CONDITION_UNKNOWN"

ResultsFollowCalls ==
    /\ Len(results) = Len(rcalls)
    /\ \A i \in 1..Len(results) :
        /\ results[i].severity = SeverityOf(rcalls[i].fn)
        /\ results[i].message = rcalls[i].message

ResultAppended ==
    Len(rcalls') = Len(rcalls) + 1 =>
        /\ Len(results') = Len(results) + 1
        /\ SubSeq(results', 1, Len(results)) = results

\* C8: every call of Fatal, Warning, Normal or Normalf adds exactly one result at
\* the end of the results, with the builder's severity and the given message, and
\* leaves the results already there in place and unchanged; after n calls the list
\* holds n results in call order.
C8_ResultsAppendOnly == []ResultsFollowCalls /\ [][ResultAppended]_vars

\* A fatal result followed by a formatted normal result.
C8_FatalThenNormalf ==
    /\ Len(results) = 2
    /\ results[1].severity = "SEVERITY_FATAL"
    /\ results[2].severity = "SEVERITY_NORMAL"
    /\ results[2].message = Sprintf("this is a test %s result", "formatted")

TargetAfter(call) ==
    IF call.target = "TargetCompositeAndClaim"
    THEN Some("TARGET_COMPOSITE_AND_CLAIM")
    ELSE Some("TARGET_COMPOSITE")

\* C9: every result and every condition has its target set, to TARGET_COMPOSITE,
\* unless the last target method called on its handle was TargetCompositeAndClaim.
C9_DefaultTargetComposite ==
    /\ \A i \in 1..Len(results) : results[i].target = TargetAfter(rcalls[i])
    /\ \A i \in 1..Len(conditions) : conditions[i].target = TargetAfter(ccalls[i])

\* A result set back to the composite and a condition that targets the claim too.
C9_TargetsChosen ==
    /\ \E i \in 1..Len(results) : rcalls[i].target = "TargetComposite"
    /\ \E i \in 1..Len(conditions) : ccalls[i].target = "TargetCompositeAndClaim"

ConditionsFollowCalls ==
    /\ Len(conditions) = Len(ccalls)
    /\ \A i \in 1..Len(conditions) :
        /\ conditions[i].type = ccalls[i].type
        /\ conditions[i].reason = ccalls[i].reason
        /\ conditions[i].status = StatusOf(ccalls[i].fn)

ConditionAppended ==
    Len(ccalls') = Len(ccalls) + 1 =>
        /\ Len(conditions') = Len(conditions) + 1
        /\ SubSeq(conditions', 1, Len(conditions)) = conditions

\* C10: ConditionTrue, ConditionFalse and ConditionUnknown each append one
\* condition of the given type and reason with the builder's status; conditions of
\* one type are not merged: k calls leave k entries in call order.
C10_ConditionsAppendOnly == []ConditionsFollowCalls /\ [][ConditionAppended]_vars

\* Two conditions of one type, the first true and the second false.
C10_SameTypeTwice ==
    /\ Len(conditions) = 2
    /\ conditions[1].type = conditions[2].type
    /\ conditions[1].status = "STATUS_CONDITION_TRUE"
    /\ conditions[2].status = "STATUS_CONDITION_FALSE"

\* The records of rs2 that differ from the record of rs1 in the same place.
Touched(rs1, rs2) == {i \in 1..Len(rs1) : rs2[i] # rs1[i]}

\* A step through a result handle: one record of a handle, its reason or its
\* target and nothing else.
ResultHandleStep ==
    (Len(results') = Len(results) /\ results' # results) =>
        /\ conditions' = conditions
        /\ \E h \in rhandles :
            /\ Touched(results, results') = {h}
            /\ \/ results'[h] = [results[h] EXCEPT !.reason = results'[h].reason]
               \/ results'[h] = [results[h] EXCEPT !.target = results'[h].target]

\* A step through a condition handle: one record of a handle, its message or
\* its target and nothing else.
ConditionHandleStep ==
    (Len(conditions') = Len(conditions) /\ conditions' # conditions) =>
        /\ results' = results
        /\ \E h \in chandles :
            /\ Touched(conditions, conditions') = {h}
            /\ \/ conditions'[h] = [conditions[h] EXCEPT !.message = conditions'[h].message]
               \/ conditions'[h] = [conditions[h] EXCEPT !.target = conditions'[h].target]

C26_FatalTargetsComposite ==
    \A i \in 1..Len(results) :
        results[i].severity = "SEVERITY_FATAL" => results[i].target = Some("TARGET_COMPOSITE")

\* A fatal result next to a result that was made to target the claim too.
C26_FatalBesideClaimTarget ==
    /\ \E i \in 1..Len(results) : results[i].severity = "SEVERITY_FATAL"
    /\ \E i \in 1..Len(results) : results[i].target = Some("TARGET_COMPOSITE_AND_CLAIM")

(***************************************************************************)
(* The struct bridge of package resource, on its fast path: every resource *)
(* type the accessors hand to it is backed by unstructured content.        *)
(***************************************************************************)
\* errors.Wrap and errors.Wrapf: nil for a nil error, else the cause's kind
\* under the message that was added.
Wrap(err, message) == IF err = NoErr THEN NoErr ELSE Err(err.kind, message)

\* AsObject into an object that has SetUnstructuredContent: the content is
\* s.AsMap(), an empty map for a nil struct, and the error is nil.
AsObject(s) == [obj |-> AsMap(s.fields), err |-> NoErr]

\* structpb.NewValue: the wire value of a Go value of a document.
NewValue(v) ==
    CASE v.k = "int64"   -> [v |-> Val("number_value", v.c, v.n * 1000), err |-> NoErr]
      [] v.k = "float64" -> [v |-> Val("number_value", v.c, v.n), err |-> NoErr]
      [] v.k = "string"  -> [v |-> Val("string_value", v.c, v.n), err |-> NoErr]
      [] v.k = "bool"    -> [v |-> Val("bool_value", v.c, v.n), err |-> NoErr]
      [] v.k = "nil"     -> [v |-> Val("null_value", v.c, v.n), err |-> NoErr]
      [] v.k = "absent"  -> [v |-> Absent, err |-> NoErr]
      [] OTHER           -> [v |-> Absent, err |-> Err("InvalidType", "")]

\* structpb.NewStruct: nil and the first error when a value has no wire form.
NewStruct(d) ==
    IF \E q \in Paths : NewValue(d[q]).err # NoErr
    THEN [s |-> NilStruct, err |-> Err("InvalidType", CHOOSE q \in Paths : NewValue(d[q]).err # NoErr)]
    ELSE [s |-> StructOf([q \in Paths |-> NewValue(d[q]).v]), err |-> NoErr]

\* AsStruct of an object that has UnstructuredContent.
AsStruct(o) ==
    LET n == NewStruct(o) IN [s |-> n.s, err |-> Wrap(n.err, "cannot create new Struct from %T")]

\* resource.Ready, and the value of a DesiredComposed that never set it.
GoReady == {"", "Unspecified", "True", "False"}

\* The switch on Ready without its case for ReadyFalse.
ReadyToWireNoFalse(ready) ==
    CASE ready = "Unspecified" -> "READY_UNSPECIFIED"
      [] ready = "True"        -> "READY_TRUE"
      [] OTHER                 -> "READY_UNSPECIFIED"

\* The switch on Ready of the assembly functions; r.Ready keeps its zero value
\* when no case matches.
ReadyToWire(ready) ==
    CASE ready = "Unspecified" -> "READY_UNSPECIFIED"
      [] ready = "False"       -> "READY_FALSE"
      [] ready = "True"        -> "READY_TRUE"
      [] OTHER                 -> "READY_UNSPECIFIED"

\* The switch on GetReady without its case for READY_FALSE.
ReadyFromWireNoFalse(ready) ==
    CASE ready = "READY_UNSPECIFIED" -> "Unspecified"
      [] ready = "READY_TRUE"        -> "True"
      [] OTHER                       -> ""

\* The switch on GetReady of GetDesiredComposedResources.
ReadyFromWire(ready) ==
    CASE ready = "READY_UNSPECIFIED" -> "Unspecified"
      [] ready = "READY_TRUE"        -> "True"
      [] ready = "READY_FALSE"       -> "False"
      [] OTHER                       -> ""

\* The orders in which a range over a Go map with keys S can visit them.
Orders(S) ==
    {o \in [1..Cardinality(S) -> S] : \A i, j \in 1..Cardinality(S) : i # j => o[i] # o[j]}

(***************************************************************************)
(* SpecGet: extraction of the composed resources of a request.             *)
(***************************************************************************)
\* req.GetObserved().GetResources() and req.GetDesired().GetResources()
GetResources(ptr, h) == IF ptr = "nil" THEN NilMap ELSE h[ptr].resources

\* GetDesiredComposedResources with a map that is only made at the first entry.
DesiredComposedResourcesLazy(resources) ==
    LET conv == [n \in DOMAIN resources.kv |-> AsObject(resources.kv[n].resource)]
        bad == {n \in DOMAIN resources.kv : conv[n].err # NoErr}
    IN  IF bad # {} THEN [m |-> NilMap, err |-> conv[CHOOSE n \in bad : TRUE].err]
        ELSE IF DOMAIN resources.kv = {} THEN [m |-> NilMap, err |-> NoErr]
        ELSE [m |-> MapOf([n \in DOMAIN resources.kv |->
                        [resource |-> conv[n].obj,
                         ready |-> ReadyFromWire(resources.kv[n].ready)]]),
              err |-> NoErr]

\* The result of GetObservedComposedResources for the resources of the observed
\* state: nil and the error of the first resource that does not convert, else a
\* map made before the loop, with the connection details defaulted to empty.
ObservedComposedResources(resources) ==
    LET conv == [n \in DOMAIN resources.kv |-> AsObject(resources.kv[n].resource)]
        bad == {n \in DOMAIN resources.kv : conv[n].err # NoErr}
    IN  IF bad # {} THEN [m |-> NilMap, err |-> conv[CHOOSE n \in bad : TRUE].err]
        ELSE [m |-> MapOf([n \in DOMAIN resources.kv |->
                        [resource |-> conv[n].obj,
                         cd |-> IF resources.kv[n].cd = "nil" THEN "empty"
                                ELSE resources.kv[n].cd]]),
              err |-> NoErr]

\* The result of GetDesiredComposedResources for the resources of the desired
\* state.
DesiredComposedResources(resources) ==
    LET conv == [n \in DOMAIN resources.kv |-> AsObject(resources.kv[n].resource)]
        bad == {n \in DOMAIN resources.kv : conv[n].err # NoErr}
    IN  IF bad # {} THEN [m |-> NilMap, err |-> conv[CHOOSE n \in bad : TRUE].err]
        ELSE [m |-> MapOf([n \in DOMAIN resources.kv |->
                        [resource |-> conv[n].obj,
                         ready |-> ReadyFromWire(resources.kv[n].ready)]]),
              err |-> NoErr]

\* A request as it is decoded: each state absent or one of ReqStates.
InitGet ==
    /\ IdleInt /\ IdleDiag /\ IdleBeta /\ IdleObj /\ IdleCtx
    /\ \E o \in {"nil", "reqObserved"}, d \in {"nil", "reqDesired"} :
           req = Request("", o, d, "nil")
    /\ \E so \in ReqStates, sd \in ReqStates :
           st = Heap(IF req.observed = "nil" THEN EmptyState ELSE so,
                     IF req.desired = "nil" THEN EmptyState ELSE sd,
                     EmptyState)
    /\ snap = st
    /\ rsp = NoRsp
    /\ ret = NoRet
    /\ got = NoGot

GetObservedComposedResources ==
    LET r == ObservedComposedResources(GetResources(req.observed, st)) IN
    /\ got' = [op |-> "GetObservedComposedResources", m |-> r.m, xr |-> NilComposite, err |-> r.err]
    /\ UNCHANGED <<req, st, snap, rsp, ret>>
    /\ UNCHANGED offReq

GetDesiredComposedResources ==
    LET r == DesiredComposedResources(GetResources(req.desired, st)) IN
    /\ got' = [op |-> "GetDesiredComposedResources", m |-> r.m, xr |-> NilComposite, err |-> r.err]
    /\ UNCHANGED <<req, st, snap, rsp, ret>>
    /\ UNCHANGED offReq

\* req.GetObserved().GetComposite() and req.GetDesired().GetComposite()
GetComposite(ptr, h) == IF ptr = "nil" THEN NilResource ELSE h[ptr].composite

\* The composite getters without "if xr.ConnectionDetails == nil { make }".
CompositeResourceRawDetails(composite) ==
    LET a == AsObject(composite.resource) IN
    [xr |-> [isnil |-> FALSE, resource |-> a.obj, cd |-> composite.cd], err |-> a.err]

\* The result of GetObservedCompositeResource and GetDesiredCompositeResource
\* for the composite of the observed or desired state: a Composite around
\* composite.New(), the connection details of the request or an empty map, and
\* the error of AsObject next to it.
CompositeResource(composite) ==
    LET a == AsObject(composite.resource) IN
    [xr |-> [isnil |-> FALSE, resource |-> a.obj,
             cd |-> IF composite.cd = "nil" THEN "empty" ELSE composite.cd],
     err |-> a.err]

GetObservedCompositeResource ==
    LET r == CompositeResource(GetComposite(req.observed, st)) IN
    /\ got' = [op |-> "GetObservedCompositeResource", m |-> NilMap, xr |-> r.xr, err |-> r.err]
    /\ UNCHANGED <<req, st, snap, rsp, ret>>
    /\ UNCHANGED offReq

GetDesiredCompositeResource ==
    LET r == CompositeResource(GetComposite(req.desired, st)) IN
    /\ got' = [op |-> "GetDesiredCompositeResource", m |-> NilMap, xr |-> r.xr, err |-> r.err]
    /\ UNCHANGED <<req, st, snap, rsp, ret>>
    /\ UNCHANGED offReq

NextGet ==
    \/ GetObservedComposedResources
    \/ GetDesiredComposedResources
    \/ GetObservedCompositeResource
    \/ GetDesiredCompositeResource

SpecGet == InitGet /\ [][NextGet]_vars

(***************************************************************************)
(* Extraction: the claims.                                                 *)
(***************************************************************************)
\* The names the extraction call that filled got had to read.
SourceNames ==
    IF got.op = "GetObservedComposedResources"
    THEN DOMAIN GetResources(req.observed, st).kv
    ELSE DOMAIN GetResources(req.desired, st).kv

\* C5: GetObservedComposedResources and GetDesiredComposedResources return a
\* non-nil empty mapping and a nil error for a request without the state or
\* without resources in it, and never a nil mapping together with a nil error.
C5_NonNilEmptyMapping ==
    got.op \in {"GetObservedComposedResources", "GetDesiredComposedResources"} =>
        /\ got.err = NoErr => ~got.m.isnil
        /\ SourceNames = {} => (got.err = NoErr /\ ~got.m.isnil /\ DOMAIN got.m.kv = {})

\* Both shapes of the case: a request without desired state, and (reached from
\* another request) one whose observed state has a composite but no resources.
C5_NoResourcesRead ==
    /\ got.op = "GetDesiredComposedResources"
    /\ req.desired = "nil"
    /\ req.observed # "nil"
    /\ st.reqObserved.resources.isnil
    /\ ~st.reqObserved.composite.isnil
    /\ got.err = NoErr

\* The composite the extraction call that filled got had to read.
SourceComposite ==
    IF got.op = "GetObservedCompositeResource"
    THEN GetComposite(req.observed, st)
    ELSE GetComposite(req.desired, st)

\* The entries of connection details: a nil map and an empty one hold none.
DetailsOf(cd) == IF cd = "some" THEN "some" ELSE "none"

\* C11: GetObservedCompositeResource and GetDesiredCompositeResource never
\* return a nil Composite or nil connection details; without a composite in the
\* request they return a nil error, an empty document and empty connection
\* details; with one, the document encodes to the request's struct and the
\* connection details are the request's.
C11_CompositeUsable ==
    got.op \in {"GetObservedCompositeResource", "GetDesiredCompositeResource"} =>
        /\ ~got.xr.isnil
        /\ got.xr.cd # "nil"
        /\ SourceComposite.isnil =>
               (got.err = NoErr /\ got.xr.resource = EmptyDoc /\ got.xr.cd = "empty")
        /\ ~SourceComposite.isnil =>
               /\ got.err = NoErr
               /\ \A q \in Paths :
                      NewValue(got.xr.resource[q]).v = SourceComposite.resource.fields[q]
               /\ DetailsOf(got.xr.cd) = DetailsOf(SourceComposite.cd)

\* The desired composite of a request without desired state was read.
C11_NoCompositeRead ==
    /\ got.op = "GetDesiredCompositeResource"
    /\ req.desired = "nil"
    /\ got.err = NoErr
    /\ got.xr.cd = "empty"

(***************************************************************************)
(* SpecFields: extraction of the required resources and of the credentials *)
(* of a request.  The v1 request has two maps of resources: extra          *)
(* (ExtraResources, deprecated) and required (RequiredResources).          *)
(***************************************************************************)
\* The selector groups of a request.
Groups == {"g", "h"}

\* The items of a group: none, one, or two in either order.
ItemLists ==
    { <<>>, <<WidgetsResource>>, <<WidgetsResource, EmptyResource>>,
      <<EmptyResource, WidgetsResource>> }

\* map[string]*v1.Resources as decoded: a map with no group decodes to nil.
GroupMaps ==
    {NilMap} \cup {MapOf(kv) : kv \in UNION {[S -> ItemLists] : S \in (SUBSET Groups) \ {{}}}}

\* The names credentials go by.
CredentialNames == {"db", "api"}

\* *v1.Credentials: the case of the source oneof that is set, and the data.
CredentialValues ==
    {[source |-> "credential_data", data |-> "secret"], [source |-> "none", data |-> "nil"]}

CredentialMaps ==
    {NilMap} \cup
    {MapOf(kv) : kv \in UNION {[S -> CredentialValues] : S \in (SUBSET CredentialNames) \ {{}}}}

\* []resource.Required: nil, or its elements.
NilList == [isnil |-> TRUE, items |-> <<>>]

ListOf(items) == [isnil |-> FALSE, items |-> items]

\* The loop over the items of one group with a list that is nil until the
\* first append.
RECURSIVE RequiredItemsLazy(_, _)
RequiredItemsLazy(acc, items) ==
    IF items = <<>> THEN [l |-> IF acc = <<>> THEN NilList ELSE ListOf(acc), err |-> NoErr]
    ELSE LET a == AsObject(Head(items).resource) IN
         IF a.err # NoErr THEN [l |-> NilList, err |-> a.err]
         ELSE RequiredItemsLazy(Append(acc, [resource |-> a.obj]), Tail(items))

\* The loop over the items of one group: the list appended to so far, or the
\* first AsObject error.
RECURSIVE RequiredItems(_, _)
RequiredItems(acc, items) ==
    IF items = <<>> THEN [l |-> ListOf(acc), err |-> NoErr]
    ELSE LET a == AsObject(Head(items).resource) IN
         IF a.err # NoErr THEN [l |-> NilList, err |-> a.err]
         ELSE RequiredItems(Append(acc, [resource |-> a.obj]), Tail(items))

\* The same function ranging over req.GetRequiredResources().
RequiredResourcesNewField(r) ==
    LET conv == [g \in DOMAIN r.required.kv |-> RequiredItems(<<>>, r.required.kv[g])]
        bad == {g \in DOMAIN r.required.kv : conv[g].err # NoErr}
    IN  IF bad # {} THEN [m |-> NilMap, err |-> conv[CHOOSE g \in bad : TRUE].err]
        ELSE [m |-> MapOf([g \in DOMAIN r.required.kv |-> conv[g].l]), err |-> NoErr]

\* The result of GetRequiredResources for request r: it ranges over
\* req.GetExtraResources(), gives every group a list that starts empty and
\* appends the group's items in order; nil and the error when an item does not
\* convert.
RequiredResources(r) ==
    LET conv == [g \in DOMAIN r.extra.kv |-> RequiredItems(<<>>, r.extra.kv[g])]
        bad == {g \in DOMAIN r.extra.kv : conv[g].err # NoErr}
    IN  IF bad # {} THEN [m |-> NilMap, err |-> conv[CHOOSE g \in bad : TRUE].err]
        ELSE [m |-> MapOf([g \in DOMAIN r.extra.kv |-> conv[g].l]), err |-> NoErr]

\* The result of GetExtraResources: that of GetRequiredResources.
ExtraResources(r) == RequiredResources(r)

\* resource.Credentials{}
NoCredentials == [type |-> "", data |-> "nil"]

\* GetCredentials that takes any credential it finds for inline data.
CredentialsAnySource(r, name) ==
    IF name \notin DOMAIN r.credentials.kv
    THEN [c |-> NoCredentials, err |-> Err("CredentialNotFound", name)]
    ELSE [c |-> [type |-> "Data", data |-> r.credentials.kv[name].data], err |-> NoErr]

\* The result of GetCredentials(r, name).
Credentials(r, name) ==
    IF name \notin DOMAIN r.credentials.kv
    THEN [c |-> NoCredentials, err |-> Err("CredentialNotFound", name)]
    ELSE IF r.credentials.kv[name].source = "credential_data"
    THEN [c |-> [type |-> "Data", data |-> r.credentials.kv[name].data], err |-> NoErr]
    ELSE [c |-> NoCredentials, err |-> Err("UnsupportedCredentialSource", name)]

InitFields ==
    /\ IdleInt /\ IdleDiag /\ IdleBeta /\ IdleObj /\ IdleCtx
    /\ \E e \in GroupMaps, n \in GroupMaps, c \in CredentialMaps :
           req = [Request("", "nil", "nil", "nil")
                     EXCEPT !.extra = e, !.required = n, !.credentials = c]
    /\ st = Heap(EmptyState, EmptyState, EmptyState)
    /\ snap = st
    /\ rsp = NoRsp
    /\ ret = NoRet
    /\ got = NoGot

GetRequiredResources ==
    LET r == RequiredResources(req) IN
    /\ got' = [op |-> "GetRequiredResources", m |-> r.m, xr |-> NilComposite, err |-> r.err]
    /\ UNCHANGED <<req, st, snap, rsp, ret>>
    /\ UNCHANGED offReq

GetExtraResources ==
    LET r == ExtraResources(req) IN
    /\ got' = [op |-> "GetExtraResources", m |-> r.m, xr |-> NilComposite, err |-> r.err]
    /\ UNCHANGED <<req, st, snap, rsp, ret>>
    /\ UNCHANGED offReq

GetCredentials ==
    \E name \in CredentialNames :
        LET r == Credentials(req, name) IN
        /\ got' = [op |-> "GetCredentials", m |-> [name |-> name, c |-> r.c],
                   xr |-> NilComposite, err |-> r.err]
        /\ UNCHANGED <<req, st, snap, rsp, ret>>
        /\ UNCHANGED offReq

NextFields == GetRequiredResources \/ GetExtraResources \/ GetCredentials

SpecFields == InitFields /\ [][NextFields]_vars

(***************************************************************************)
(* Required resources and credentials: the claims.                         *)
(***************************************************************************)
\* The resources a map of groups carries, decoded: every group with the
\* documents of its items in their order.
Decoded(groups) ==
    [g \in DOMAIN groups.kv |->
        [k \in 1..Len(groups.kv[g]) |-> AsMap(groups.kv[g][k].resource.fields)]]

\* The documents of a returned mapping.
Returned(m) ==
    [g \in DOMAIN m.kv |-> [k \in 1..Len(m.kv[g].items) |-> m.kv[g].items[k].resource]]

\* C14: GetRequiredResources returns the resources of the request's
\* required-resources field, every group with its decoded items.
C14_ReadsRequiredField ==
    got.op = "GetRequiredResources" =>
        (got.err = NoErr /\ ~got.m.isnil /\ Returned(got.m) = Decoded(req.required))

\* GetRequiredResources answered a request that has a group in its
\* required-resources field and nothing in the deprecated one with no group.
C14_RequiredFieldIgnored ==
    /\ got.op = "GetRequiredResources"
    /\ req.required = MapOf([g \in {"g"} |-> <<WidgetsResource>>])
    /\ req.extra = NilMap
    /\ got.err = NoErr
    /\ DOMAIN got.m.kv = {}

C17_CredentialsBySource ==
    got.op = "GetCredentials" =>
        LET name == got.m.name
            has == name \in DOMAIN req.credentials.kv
        IN  /\ ~has => (got.m.c = NoCredentials /\ got.err = Err("CredentialNotFound", name))
            /\ (has /\ req.credentials.kv[name].source = "credential_data") =>
                   /\ got.err = NoErr
                   /\ got.m.c.type = "Data"
                   /\ got.m.c.data = req.credentials.kv[name].data
            /\ (has /\ req.credentials.kv[name].source # "credential_data") =>
                   /\ got.m.c = NoCredentials
                   /\ got.err.kind = "UnsupportedCredentialSource"

\* A credential without a source was asked for, next to one with inline data.
C17_NoSourceAsked ==
    /\ got.op = "GetCredentials"
    /\ got.m.name = "db"
    /\ DOMAIN req.credentials.kv = CredentialNames
    /\ req.credentials.kv["db"].source = "none"
    /\ req.credentials.kv["api"].source = "credential_data"
    /\ got.err # NoErr

(***************************************************************************)
(* SpecAsm: assembly of a response.  response.To hands the request's State *)
(* pointer to the response, so the assembly functions write through it.    *)
(***************************************************************************)
\* Durations are counted in milliseconds: DefaultTTL is 1 * time.Minute.
DefaultTTL == 60000

TTLs == {1500, DefaultTTL}

\* durationpb.New: whole seconds, and the rest in nanoseconds.
DurationNew(d) == [seconds |-> TruncZero(d), nanos |-> (d - 1000 * TruncZero(d)) * 1000000]

\* The documents of the objects a function hands to the assembly functions:
\* {spec: {widgets: 9001}}, {} and one holding a value with no wire form.
WidgetsDoc == [EmptyDoc EXCEPT !["spec.widgets"] = Val("int64", "fin", 9001)]

BadDoc == [EmptyDoc EXCEPT !["spec.other"] = Val("unsupported", "fin", 0)]

\* map[resource.Name]*resource.DesiredComposed
DesiredComposeds ==
    {[resource |-> WidgetsDoc, ready |-> r] : r \in GoReady}
        \cup {[resource |-> BadDoc, ready |-> ""]}

DcdMaps == UNION {[S -> DesiredComposeds] : S \in SUBSET Names}

\* map[resource.Name]*unstructured.Unstructured
DrMaps == UNION {[S -> {EmptyDoc, BadDoc}] : S \in SUBSET Names}

\* *resource.Composite
Composites == [resource : {WidgetsDoc, BadDoc}, cd : {"some"}, ready : {"", "False"}]

\* The desired states of the requests a response is assembled for.
AsmReqStates ==
    {s \in ReqStates :
        /\ s.composite \in {NilResource, WidgetsResource}
        /\ \A n \in DOMAIN s.resources.kv : s.resources.kv[n] \in {WidgetsResource, BareResource}}

\* The loop of SetDesiredComposedResources over dcds in the order the range
\* visits them: it returns at the first AsStruct error, with the entries of
\* the names visited before it already written.
RECURSIVE SetComposedLoop(_, _, _)
SetComposedLoop(m, dcds, order) ==
    IF order = <<>> THEN [m |-> m, err |-> NoErr]
    ELSE LET name == Head(order)
             a == AsStruct(dcds[name].resource)
         IN  IF a.err # NoErr THEN [m |-> m, err |-> a.err]
             ELSE SetComposedLoop(
                      MapPut(m, name, Resource(a.s, "nil", ReadyToWire(dcds[name].ready))),
                      dcds, Tail(order))

\* The loop of SetDesiredResources.
RECURSIVE SetResourcesLoop(_, _, _)
SetResourcesLoop(m, drs, order) ==
    IF order = <<>> THEN [m |-> m, err |-> NoErr]
    ELSE LET name == Head(order)
             a == AsStruct(drs[name])
         IN  IF a.err # NoErr THEN [m |-> m, err |-> a.err]
             ELSE SetResourcesLoop(
                      MapPut(m, name, Resource(a.s, "nil", "READY_UNSPECIFIED")),
                      drs, Tail(order))

\* rsp.Desired after "if rsp.GetDesired() == nil { rsp.Desired = &v1.State{} }"
DesiredPtr == IF rsp.desired = "nil" THEN "fresh" ELSE rsp.desired

WithDesired == IF rsp.desired = "nil" THEN [st EXCEPT !.fresh = EmptyState] ELSE st

\* ... and after "if rsp.GetDesired().GetResources() == nil { ... = map{} }"
WithResources ==
    IF WithDesired[DesiredPtr].resources.isnil
    THEN [WithDesired EXCEPT ![DesiredPtr].resources = EmptyMap]
    ELSE WithDesired

\* A request as it is decoded, before the function made its response.
InitAsm ==
    /\ IdleInt /\ IdleDiag /\ IdleBeta /\ IdleObj /\ IdleCtx
    /\ \E d \in {"nil", "reqDesired"} :
           \/ req = Request("", "nil", d, "nil")
           \/ req = Request("tag", "nil", d, "reqContext")
    /\ \E sd \in AsmReqStates :
           st = Heap(EmptyState, IF req.desired = "nil" THEN EmptyState ELSE sd, EmptyState)
    /\ snap = st
    /\ rsp = NoRsp
    /\ ret = NoRet
    /\ got = NoGot

\* response.To without "Desired: req.GetDesired()".
ToWithoutDesired ==
    /\ ~rsp.made
    /\ \E ttl \in TTLs :
           /\ rsp' = [made |-> TRUE, tag |-> req.tag, ttl |-> DurationNew(ttl),
                      desired |-> "nil", context |-> req.context]
           /\ ret' = [op |-> "To", arg |-> ttl, err |-> NoErr]
    /\ UNCHANGED <<req, st, snap, got>>
    /\ UNCHANGED offReq

\* response.To with the default TTL in place of ttl.
ToDefaultTTL ==
    /\ ~rsp.made
    /\ \E ttl \in TTLs :
           /\ rsp' = [made |-> TRUE, tag |-> req.tag, ttl |-> DurationNew(DefaultTTL),
                      desired |-> req.desired, context |-> req.context]
           /\ ret' = [op |-> "To", arg |-> ttl, err |-> NoErr]
    /\ UNCHANGED <<req, st, snap, got>>
    /\ UNCHANGED offReq

To ==
    /\ ~rsp.made
    /\ \E ttl \in TTLs :
           /\ rsp' = [made |-> TRUE, tag |-> req.tag, ttl |-> DurationNew(ttl),
                      desired |-> req.desired, context |-> req.context]
           /\ ret' = [op |-> "To", arg |-> ttl, err |-> NoErr]
    /\ UNCHANGED <<req, st, snap, got>>
    /\ UNCHANGED offReq

SetDesiredCompositeResource ==
    /\ rsp.made
    /\ ret = NoRet
    /\ \E c \in Composites :
           LET a == AsStruct(c.resource)
               r == Resource(a.s, c.cd, ReadyToWire(c.ready))
           IN  /\ rsp' = [rsp EXCEPT !.desired = DesiredPtr]
               /\ IF a.err # NoErr
                  THEN /\ st' = WithDesired
                       /\ ret' = [op |-> "SetDesiredCompositeResource", arg |-> c,
                                  err |-> Wrap(a.err, "cannot convert %T to desired composite resource")]
                  ELSE /\ st' = [WithDesired EXCEPT ![DesiredPtr].composite = r]
                       /\ ret' = [op |-> "SetDesiredCompositeResource", arg |-> c, err |-> NoErr]
    /\ UNCHANGED <<req, snap, got>>
    /\ UNCHANGED offReq

SetDesiredComposedResources ==
    /\ rsp.made
    /\ ret = NoRet
    /\ \E dcds \in DcdMaps :
           \E order \in Orders(DOMAIN dcds) :
               LET loop == SetComposedLoop(WithResources[DesiredPtr].resources, dcds, order) IN
               /\ rsp' = [rsp EXCEPT !.desired = DesiredPtr]
               /\ st' = [WithResources EXCEPT ![DesiredPtr].resources = loop.m]
               /\ ret' = [op |-> "SetDesiredComposedResources", arg |-> dcds, err |-> loop.err]
    /\ UNCHANGED <<req, snap, got>>
    /\ UNCHANGED offReq

\* SetDesiredResources with "rsp.Desired.Resources = map{}" done unconditionally.
SetDesiredResourcesFresh ==
    /\ rsp.made
    /\ ret = NoRet
    /\ \E drs \in DrMaps :
           \E order \in Orders(DOMAIN drs) :
               LET loop == SetResourcesLoop(EmptyMap, drs, order) IN
               /\ rsp' = [rsp EXCEPT !.desired = DesiredPtr]
               /\ st' = [WithResources EXCEPT ![DesiredPtr].resources = loop.m]
               /\ ret' = [op |-> "SetDesiredResources", arg |-> drs, err |-> loop.err]
    /\ UNCHANGED <<req, snap, got>>
    /\ UNCHANGED offReq

SetDesiredResources ==
    /\ rsp.made
    /\ ret = NoRet
    /\ \E drs \in DrMaps :
           \E order \in Orders(DOMAIN drs) :
               LET loop == SetResourcesLoop(WithResources[DesiredPtr].resources, drs, order) IN
               /\ rsp' = [rsp EXCEPT !.desired = DesiredPtr]
               /\ st' = [WithResources EXCEPT ![DesiredPtr].resources = loop.m]
               /\ ret' = [op |-> "SetDesiredResources", arg |-> drs, err |-> loop.err]
    /\ UNCHANGED <<req, snap, got>>
    /\ UNCHANGED offReq

\* The function has looked at what the call returned and goes on.
Proceed ==
    /\ ret # NoRet
    /\ ret' = NoRet
    /\ UNCHANGED <<req, st, snap, rsp, got>>
    /\ UNCHANGED offReq

NextAsm ==
    \/ To
    \/ Proceed
    \/ SetDesiredCompositeResource
    \/ SetDesiredComposedResources
    \/ SetDesiredResources

SpecAsm == InitAsm /\ [][NextAsm]_vars

(***************************************************************************)
(* Assembly: the claims.                                                   *)
(***************************************************************************)
\* The composed-resource names of the request's desired state as it arrived.
ReqDesiredNames == IF req.desired = "nil" THEN {} ELSE DOMAIN snap[req.desired].resources.kv

\* C1: the response response.To returns has exactly the request's desired state,
\* the composite and every named composed resource, and has none when the
\* request has none.
C1_ToCopiesDesired ==
    ret.op = "To" =>
        /\ (req.desired = "nil") <=> (rsp.desired = "nil")
        /\ req.desired # "nil" => st[rsp.desired] = snap[req.desired]

\* To answered a request that has a desired composite and two composed resources.
C1_ToOfFullRequest ==
    /\ ret.op = "To"
    /\ req.desired # "nil"
    /\ ~snap.reqDesired.composite.isnil
    /\ ReqDesiredNames = Names
    /\ rsp.made

\* C2: after response.To, whatever SetDesiredComposedResources,
\* SetDesiredResources and SetDesiredCompositeResource calls follow, every
\* composed-resource name of the request's desired state is still a key of the
\* response's desired resources.
C2_NamesSurvive ==
    rsp.made =>
        \A n \in ReqDesiredNames :
            /\ rsp.desired # "nil"
            /\ n \in DOMAIN st[rsp.desired].resources.kv

\* Assembly calls followed To: a name was added, a requested name was
\* overwritten, the composite was replaced, and the last call failed half way.
C2_AssemblyAfterTo ==
    /\ rsp.made
    /\ ReqDesiredNames = {"a"}
    /\ rsp.desired # "nil"
    /\ DOMAIN st[rsp.desired].resources.kv = Names
    /\ st[rsp.desired].resources.kv["a"] # snap.reqDesired.resources.kv["a"]
    /\ st[rsp.desired].composite # snap.reqDesired.composite
    /\ ret.op = "SetDesiredResources"
    /\ ret.err # NoErr

\* Duration.AsDuration, in milliseconds.
AsDuration(d) == d.seconds * 1000 + d.nanos \div 1000000

\* C12: the response response.To returns has the request's meta tag (the empty
\* tag when the request has no meta), a TTL equal to ttl, and the request's
\* context.
C12_ToCopiesMeta ==
    ret.op = "To" =>
        /\ rsp.tag = req.tag
        /\ AsDuration(rsp.ttl) = ret.arg
        /\ rsp.context = req.context

\* To answered a request with a tag and a context, with a TTL of 1.5 s.
C12_ToOfTaggedRequest ==
    /\ ret.op = "To"
    /\ req.tag = "tag"
    /\ req.context = "reqContext"
    /\ ret.arg = 1500
    /\ rsp.ttl.nanos = 500000000

\* The desired state a response has before a call, an empty one when it has none.
DesiredBefore == IF rsp.desired = "nil" THEN EmptyState ELSE st[rsp.desired]

\* The readiness a desired composed resource is installed with, where C13 names it.
ReadyInstalled(ready, wire) ==
    /\ ready = "Unspecified" => wire = "READY_UNSPECIFIED"
    /\ ready = "True" => wire = "READY_TRUE"
    /\ ready = "False" => wire = "READY_FALSE"

ComposedInstalled ==
    (ret = NoRet /\ ret'.op = "SetDesiredComposedResources" /\ ret'.err = NoErr) =>
        LET dcds == ret'.arg
            after == st'[rsp'.desired]
        IN  /\ rsp'.desired # "nil"
            /\ ~after.resources.isnil
            /\ DOMAIN after.resources.kv = (DOMAIN DesiredBefore.resources.kv) \cup (DOMAIN dcds)
            /\ \A n \in DOMAIN dcds :
                   /\ after.resources.kv[n].resource = AsStruct(dcds[n].resource).s
                   /\ ReadyInstalled(dcds[n].ready, after.resources.kv[n].ready)
            /\ after.composite = DesiredBefore.composite
            /\ \A n \in (DOMAIN DesiredBefore.resources.kv) \ (DOMAIN dcds) :
                   after.resources.kv[n] = DesiredBefore.resources.kv[n]

\* C13: a SetDesiredComposedResources call that returns nil has made the desired
\* state and its resources map where they were absent, has installed under
\* every name of dcds the encoded resource of the entry with its readiness
\* mapped (Unspecified, True, False to READY_UNSPECIFIED, READY_TRUE,
\* READY_FALSE), and has left the desired composite and the resources of all
\* other names as they were.
C13_ComposedInstalled == [][ComposedInstalled]_vars

\* A response without desired state got "a" by one call and then "b", not ready,
\* by a call that returned nil.
C13_SecondNameInstalled ==
    /\ ret.op = "SetDesiredComposedResources"
    /\ ret.err = NoErr
    /\ req.desired = "nil"
    /\ rsp.desired = "fresh"
    /\ DOMAIN ret.arg = {"b"}
    /\ ret.arg["b"].ready = "False"
    /\ DOMAIN st.fresh.resources.kv = Names

(***************************************************************************)
(* SpecBeta: BetaServer.RunFunction, the v1beta1 server that wraps a v1    *)
(* server and converts by a round trip through protobuf bytes.             *)
(***************************************************************************)
\* The field numbers of the v1beta1 messages.
BetaRequestSchema ==
    [meta |-> 1, observed |-> 2, desired |-> 3, input |-> 4, context |-> 5,
     required_resources |-> 6, credentials |-> 7]

\* A v1beta1 response that was not regenerated when v1 gained its output field.
BetaResponseSchemaNoOutput ==
    [meta |-> 1, desired |-> 2, results |-> 3, context |-> 4, requirements |-> 5,
     conditions |-> 6]

BetaResponseSchema ==
    [meta |-> 1, desired |-> 2, results |-> 3, context |-> 4, requirements |-> 5,
     conditions |-> 6, output |-> 7]

\* The v1 messages, from which the v1beta1 file is generated.
V1RequestSchema ==
    [meta |-> 1, observed |-> 2, desired |-> 3, input |-> 4, context |-> 5,
     required_resources |-> 6, credentials |-> 7]

V1ResponseSchema ==
    [meta |-> 1, desired |-> 2, results |-> 3, context |-> 4, requirements |-> 5,
     conditions |-> 6, output |-> 7]

SchemaTags(schema) == {schema[f] : f \in DOMAIN schema}

\* A field number neither schema knows, as a newer peer may send it.
UnknownTags == {15}

\* proto.Marshal: the bytes hold the number of every populated field and the
\* unknown fields the message kept.  A string that is not valid UTF-8 is an
\* error; a nil message marshals to no bytes.
Marshal(schema, m) ==
    IF m.form = "badutf8"
    THEN [b |-> NoBytes, err |-> Err("InvalidUTF8", "")]
    ELSE [b |-> [tags |-> {schema[f] : f \in m.set} \cup m.unknown, deep |-> m.form = "deep"],
          err |-> NoErr]

\* proto.Unmarshal: every field number the schema knows populates its field and
\* the others are kept as unknown fields.  Nesting beyond the recursion limit is
\* an error, and the message is left partly filled.
Unmarshal(schema, b) ==
    IF b.deep
    THEN [m |-> PartialMsg, err |-> Err("RecursionLimit", "")]
    ELSE [m |-> Msg({f \in DOMAIN schema : schema[f] \in b.tags},
                    b.tags \ SchemaTags(schema), "ok"),
          err |-> NoErr]

\* The v1beta1 requests a caller sends.
BetaRequests ==
    {Msg(S, {}, "ok") : S \in SUBSET DOMAIN BetaRequestSchema}
        \cup {Msg(DOMAIN BetaRequestSchema, {}, f) : f \in {"badutf8", "deep"}}
        \cup {Msg(S, UnknownTags, "ok") : S \in {{}, DOMAIN BetaRequestSchema}}

\* The v1 responses a wrapped server builds.
V1Responses ==
    {Msg(S, {}, "ok") : S \in SUBSET DOMAIN V1ResponseSchema}
        \cup {Msg(DOMAIN V1ResponseSchema, {}, f) : f \in {"badutf8", "deep"}}

\* The errors a wrapped server returns.
HandlerErrors == {Err("boom", ""), Err("Unavailable", "")}

\* What s.wrapped.RunFunction can return: a response, nil, or an error with or
\* without a response next to it.
HandlerOutcomes ==
    {[called |-> TRUE, rsp |-> m, err |-> NoErr] : m \in V1Responses \cup {NilMsg}}
        \cup {[called |-> TRUE, rsp |-> m, err |-> e] :
                 m \in {NilMsg, Msg(DOMAIN V1ResponseSchema, {}, "ok")}, e \in HandlerErrors}

InitBeta == IdleInt /\ IdleDiag /\ IdleReq /\ IdleBeta /\ IdleObj /\ IdleCtx

\* RunFunction is entered with req.
BetaRunFunction ==
    /\ bpc = "idle"
    /\ \E r \in BetaRequests : breq' = r
    /\ bpc' = "marshalReq"
    /\ UNCHANGED <<bwire, gareq, garsp, bret>>
    /\ UNCHANGED offBeta

\* b, err := proto.Marshal(req)
MarshalRequest ==
    /\ bpc = "marshalReq"
    /\ LET m == Marshal(BetaRequestSchema, breq) IN
       IF m.err # NoErr
       THEN /\ bret' = [rsp |-> NilMsg,
                        err |-> Wrap(m.err, "cannot marshal v1beta1 RunFunctionRequest to protobuf bytes")]
            /\ bpc' = "done"
            /\ UNCHANGED bwire
       ELSE /\ bwire' = m.b
            /\ bpc' = "unmarshalReq"
            /\ UNCHANGED bret
    /\ UNCHANGED <<breq, gareq, garsp>>
    /\ UNCHANGED offBeta

\* proto.Unmarshal(b, gareq) with its error dropped.
UnmarshalRequestIgnoresError ==
    /\ bpc = "unmarshalReq"
    /\ gareq' = Unmarshal(V1RequestSchema, bwire).m
    /\ bpc' = "wrapped"
    /\ UNCHANGED <<breq, bwire, garsp, bret>>
    /\ UNCHANGED offBeta

\* proto.Unmarshal(b, gareq)
UnmarshalRequest ==
    /\ bpc = "unmarshalReq"
    /\ LET u == Unmarshal(V1RequestSchema, bwire) IN
       IF u.err # NoErr
       THEN /\ bret' = [rsp |-> NilMsg,
                        err |-> Wrap(u.err, "cannot unmarshal v1 RunFunctionRequest from v1beta1 protobuf bytes")]
            /\ bpc' = "done"
            /\ UNCHANGED gareq
       ELSE /\ gareq' = u.m
            /\ bpc' = "wrapped"
            /\ UNCHANGED bret
    /\ UNCHANGED <<breq, bwire, garsp>>
    /\ UNCHANGED offBeta

\* The call of the wrapped server with its error wrapped like the others.
WrappedRunFunctionWrapsError ==
    /\ bpc = "wrapped"
    /\ \E out \in HandlerOutcomes :
           /\ garsp' = out
           /\ IF out.err # NoErr
              THEN /\ bret' = [rsp |-> NilMsg, err |-> Wrap(out.err, "cannot run function")]
                   /\ bpc' = "done"
              ELSE /\ bpc' = "marshalRsp"
                   /\ UNCHANGED bret
    /\ UNCHANGED <<breq, bwire, gareq>>
    /\ UNCHANGED offBeta

\* garsp, err := s.wrapped.RunFunction(ctx, gareq)
WrappedRunFunction ==
    /\ bpc = "wrapped"
    /\ \E out \in HandlerOutcomes :
           /\ garsp' = out
           /\ IF out.err # NoErr
              THEN /\ bret' = [rsp |-> NilMsg, err |-> out.err]
                   /\ bpc' = "done"
              ELSE /\ bpc' = "marshalRsp"
                   /\ UNCHANGED bret
    /\ UNCHANGED <<breq, bwire, gareq>>
    /\ UNCHANGED offBeta

\* b, err = proto.Marshal(garsp)
MarshalResponse ==
    /\ bpc = "marshalRsp"
    /\ LET m == Marshal(V1ResponseSchema, garsp.rsp) IN
       IF m.err # NoErr
       THEN /\ bret' = [rsp |-> NilMsg,
                        err |-> Wrap(m.err, "cannot marshal v1beta1 RunFunctionResponse to protobuf bytes")]
            /\ bpc' = "done"
            /\ UNCHANGED bwire
       ELSE /\ bwire' = m.b
            /\ bpc' = "unmarshalRsp"
            /\ UNCHANGED bret
    /\ UNCHANGED <<breq, gareq, garsp>>
    /\ UNCHANGED offBeta

\* err = proto.Unmarshal(b, rsp); return rsp, errors.Wrap(err, ...)
UnmarshalResponse ==
    /\ bpc = "unmarshalRsp"
    /\ LET u == Unmarshal(BetaResponseSchema, bwire) IN
       bret' = [rsp |-> u.m,
                err |-> Wrap(u.err, "cannot unmarshal v1 RunFunctionResponse from v1beta1 protobuf bytes")]
    /\ bpc' = "done"
    /\ UNCHANGED <<breq, bwire, gareq, garsp>>
    /\ UNCHANGED offBeta

NextBeta ==
    \/ BetaRunFunction
    \/ MarshalRequest
    \/ UnmarshalRequest
    \/ WrappedRunFunction
    \/ MarshalResponse
    \/ UnmarshalResponse

SpecBeta == InitBeta /\ [][NextBeta]_vars

(***************************************************************************)
(* The compatibility shim: the claims.                                     *)
(***************************************************************************)
\* The fields of a message: the populated ones and the ones kept as unknown.
FieldsOf(m) == [set |-> m.set, unknown |-> m.unknown]

\* C3: when the wrapped v1 server returns an error, RunFunction returns that
\* very error, not wrapped, and a nil response.
C3_HandlerErrorUnwrapped ==
    (bpc = "done" /\ garsp.called /\ garsp.err # NoErr) =>
        (bret.err = garsp.err /\ bret.rsp.isnil)

\* The wrapped server returned an error next to a non-nil response.
C3_HandlerFailed ==
    /\ bpc = "done"
    /\ garsp.called
    /\ garsp.err = Err("boom", "")
    /\ ~garsp.rsp.isnil

ZeroRef == [apiVersion |-> "", kind |-> "", name |-> ""]

KindRef == [apiVersion |-> "", kind |-> "Bucket", name |-> ""]

FullRef == [apiVersion |-> "s3.example.org/v1", kind |-> "Bucket", name |-> "b"]

Refs == {ZeroRef, KindRef, FullRef}

RefFields == {"apiVersion", "kind", "name"}

MaxRefs == 2

\* []corev1.ObjectReference of at most MaxRefs elements.
RefLists == UNION {[1..n -> Refs] : n \in 0..MaxRefs}

\* ObjectReference.String: every field behind its name.
RefString(ref) == <<"Kind:", ref.kind, "Name:", ref.name, "APIVersion:", ref.apiVersion>>

\* What Paved.SetValue stores for a reference: its JSON object, which has the
\* fields that are not empty (all of them are omitempty).
RefJSON(ref) == [f \in {g \in RefFields : ref[g] # ""} |-> ref[f]]

\* What GetValueInto decodes from a stored reference.
RefFromJSON(m) == [f \in RefFields |-> IF f \in DOMAIN m THEN m[f] ELSE ""]

\* No value at the path.
AbsentRefs == [present |-> FALSE, items |-> <<>>]

\* The list at the path.
PresentRefs(items) == [present |-> TRUE, items |-> items]

\* The filter loop comparing names only.
RECURSIVE FilterRefsByName(_)
FilterRefsByName(refs) ==
    IF refs = <<>> THEN <<>>
    ELSE IF Head(refs).name = ZeroRef.name
    THEN FilterRefsByName(Tail(refs))
    ELSE <<Head(refs)>> \o FilterRefsByName(Tail(refs))

\* The filter loop of both setters: a reference whose String equals that of the
\* empty reference is skipped, the others are appended in order.
RECURSIVE FilterRefs(_)
FilterRefs(refs) ==
    IF refs = <<>> THEN <<>>
    ELSE IF RefString(Head(refs)) = RefString(ZeroRef)
    THEN FilterRefs(Tail(refs))
    ELSE <<Head(refs)>> \o FilterRefs(Tail(refs))

\* A composite resource whose document has a spec object or none, and no
\* reference lists yet.
InitRefs ==
    /\ IdleInt /\ IdleDiag /\ IdleReq /\ IdleBeta /\ IdleCtx
    /\ res = [kind |-> "composite", resourceRefs |-> AbsentRefs,
              environmentConfigRefs |-> AbsentRefs]
    /\ cpy = NoObj
    /\ ocall = NoObjCall
    /\ heap = <<>>

SetResourceReferences ==
    /\ \E refs \in RefLists :
           LET filtered == FilterRefs(refs) IN
           /\ res' = [res EXCEPT !.resourceRefs =
                                    PresentRefs([k \in 1..Len(filtered) |-> RefJSON(filtered[k])])]
           /\ ocall' = [op |-> "SetResourceReferences", arg |-> refs, err |-> NoErr]
    /\ UNCHANGED <<cpy, heap>>
    /\ UNCHANGED offObj

SetEnvironmentConfigReferences ==
    /\ \E refs \in RefLists :
           LET filtered == FilterRefs(refs) IN
           /\ res' = [res EXCEPT !.environmentConfigRefs =
                                    PresentRefs([k \in 1..Len(filtered) |-> RefJSON(filtered[k])])]
           /\ ocall' = [op |-> "SetEnvironmentConfigReferences", arg |-> refs, err |-> NoErr]
    /\ UNCHANGED <<cpy, heap>>
    /\ UNCHANGED offObj

NextRefs == SetResourceReferences \/ SetEnvironmentConfigReferences

SpecRefs == InitRefs /\ [][NextRefs]_vars

(***************************************************************************)
(* The reference setters: the claims.                                      *)
(***************************************************************************)
\* The list the last setter call wrote.
StoredRefs ==
    IF ocall.op = "SetResourceReferences" THEN res.resourceRefs ELSE res.environmentConfigRefs

\* The supplied references that have a field set, in their order.
NonZeroRefs(refs) == SelectSeq(refs, LAMBDA ref : \E f \in RefFields : ref[f] # "")

MetaFields == {"name", "namespace", "labels", "annotations", "generation"}

\* The value at the key metadata: none, a value that is not an object, or an
\* object with these keys.
NoMetadata == [is |-> "absent", keys |-> {}]

ScalarMetadata == [is |-> "scalar", keys |-> {}]

MetadataOf(keys) == [is |-> "map", keys |-> keys]

Regions == {"", "us-east-2"}

\* The group, version and kind composed.Scheme knows the typed struct by.
SchemeGVK == "s3.aws.upbound.io/v1beta1, Kind=Bucket"

\* Typed structs: the metadata keys are the ObjectMeta fields that are not zero.
TypedObjects ==
    {[shape |-> "typed", registered |-> r, gvk |-> "", metadata |-> MetadataOf(ks), region |-> rg] :
        r \in BOOLEAN, ks \in SUBSET MetaFields, rg \in Regions}

\* Objects with UnstructuredContent: any value may sit at the key metadata.
UnstructuredObjects ==
    {[shape |-> "unstructured", registered |-> FALSE, gvk |-> SchemeGVK, metadata |-> m, region |-> rg] :
        m \in {NoMetadata, ScalarMetadata} \cup {MetadataOf(ks) : ks \in SUBSET MetaFields},
        rg \in Regions}

Objects == TypedObjects \cup UnstructuredObjects

ComposedDoc(gvk, metadata, region) ==
    [kind |-> "composed", gvk |-> gvk, metadata |-> metadata, region |-> region]

\* json.Marshal and json.Unmarshal of a typed struct: the generation is an
\* integer without omitzero, so metadata always has it, next to the fields set.
MarshalTyped(o, gvk) ==
    ComposedDoc(gvk, MetadataOf(o.metadata.keys \cup {"generation"}), o.region)

\* cleanupMetadata that only deletes the generation.
cleanupMetadataGenerationOnly(doc) ==
    IF doc.metadata.is # "map" THEN doc
    ELSE [doc EXCEPT !.metadata = MetadataOf(doc.metadata.keys \ {"generation"})]

cleanupMetadata(doc) ==
    IF doc.metadata.is = "absent" THEN doc
    ELSE IF doc.metadata.is # "map" THEN doc
    ELSE LET mo == doc.metadata.keys \ {"generation"} IN
         IF mo = {} THEN [doc EXCEPT !.metadata = NoMetadata]
         ELSE [doc EXCEPT !.metadata = MetadataOf(mo)]

\* From: [cd, err].
From(o) ==
    IF o.shape = "unstructured"
    THEN [cd |-> ComposedDoc(o.gvk, o.metadata, o.region), err |-> NoErr]
    ELSE IF ~o.registered
    THEN [cd |-> NoObj, err |-> Err("did you add it to composed.Scheme?", "")]
    ELSE [cd |-> cleanupMetadata(MarshalTyped(o, SchemeGVK)), err |-> NoErr]

InitFrom ==
    /\ IdleInt /\ IdleDiag /\ IdleReq /\ IdleBeta /\ IdleCtx
    /\ res = NoObj
    /\ cpy = NoObj
    /\ ocall = NoObjCall
    /\ heap = <<>>

CallFrom ==
    /\ \E o \in Objects :
           /\ res' = From(o).cd
           /\ ocall' = [op |-> "From", arg |-> o, err |-> From(o).err]
    /\ UNCHANGED <<cpy, heap>>
    /\ UNCHANGED offObj

NextFrom == CallFrom

SpecFrom == InitFrom /\ [][NextFrom]_vars

(***************************************************************************)
(* composed.From: the claims.                                              *)
(***************************************************************************)
\* From returned a resource for its argument.
Accepted == ocall.op = "From" /\ ocall.err = NoErr

\* The document has no empty metadata map and no metadata.generation, has no
\* metadata key when the object has no metadata field set, and has no metadata
\* field the object did not set.
MetadataClean ==
    /\ ~(res.metadata.is = "map" /\ res.metadata.keys = {})
    /\ ~(res.metadata.is = "map" /\ "generation" \in res.metadata.keys)
    /\ ocall.arg.metadata.keys = {} /\ ocall.arg.metadata.is # "scalar" => res.metadata.is = "absent"
    /\ res.metadata.is = "map" => res.metadata.keys \subseteq ocall.arg.metadata.keys

\* C19 as stated: for every object From accepts, the document never holds an
\* empty metadata map nor metadata.generation, has no metadata key when the
\* object's metadata is zero-valued, and holds only metadata fields the object set.
C19_MetadataCleanForAnyObject == Accepted => MetadataClean

\* C19 as amended: the same, for every typed object From accepts (one that does
\* not expose UnstructuredContent).
C19_MetadataCleanForTypedObject == Accepted /\ ocall.arg.shape = "typed" => MetadataClean

\* A registered typed object with no metadata field set was converted, and the
\* document has its kind and region and no metadata key.
C19_TypedWithoutMetadata ==
    /\ Accepted
    /\ ocall.arg.shape = "typed"
    /\ ocall.arg.metadata.keys = {}
    /\ res = ComposedDoc(SchemeGVK, NoMetadata, "us-east-2")

(***************************************************************************)
(* SpecCopy: DeepCopy of a composite or composed resource.  A document is  *)
(* a tree of maps on a heap: heap[n] is the map at address n, with the     *)
(* addresses of the maps under its keys (kids, 0 for a missing key) and    *)
(* the values at its keys widgets and conditions.  A resource is [kind,    *)
(* root], root = 0 for a nil resource.                                     *)
(***************************************************************************)
MaxNodes == 8

Nodes == 1..MaxNodes

\* The keys that hold a map.
MapKeys == {"spec", "forProvider", "status"}

\* An address no map is at yet.
UnusedNode == [used |-> FALSE, kids |-> [k \in MapKeys |-> 0], widgets |-> 0, conditions |-> ""]

\* make(map[string]any)
FreshNode == [UnusedNode EXCEPT !.used = TRUE]

NoHeap == [n \in Nodes |-> UnusedNode]

\* The address the next allocation gets.
Alloc(h) == CHOOSE n \in Nodes : ~h[n].used /\ \A m \in Nodes : m < n => h[m].used

\* The paths the setters are called with: the keys that hold maps, then the key
\* that holds the value.
SetPaths ==
    {[keys |-> <<"spec">>, leaf |-> "widgets"],
     [keys |-> <<"spec", "forProvider">>, leaf |-> "widgets"],
     [keys |-> <<"status">>, leaf |-> "conditions"]}

\* Paved.SetValue: walks the maps that are there, makes the ones that are
\* missing, and stores the value in the last one, in place.
RECURSIVE PavedSetValue(_, _, _, _, _)
PavedSetValue(h, id, keys, leaf, v) ==
    IF keys = <<>> THEN [h EXCEPT ![id][leaf] = v]
    ELSE LET k == Head(keys) IN
         IF h[id].kids[k] # 0
         THEN PavedSetValue(h, h[id].kids[k], Tail(keys), leaf, v)
         ELSE LET n == Alloc(h) IN
              PavedSetValue([h EXCEPT ![id].kids[k] = n, ![n] = FreshNode], n, Tail(keys), leaf, v)

\* A copy of the top-level map only: the maps under its keys are the original's.
DeepCopyJSONTopLevel(h, id) ==
    LET n == Alloc(h) IN [h |-> [h EXCEPT ![n] = h[id]], id |-> n]

\* runtime.DeepCopyJSON: a new map for the map at id and, recursively, for every
\* map under its keys: [h, id], the heap after and the address of the copy.
RECURSIVE DeepCopyJSON(_, _)
DeepCopyJSON(h, id) ==
    LET n == Alloc(h)
        h0 == [h EXCEPT ![n] = [h[id] EXCEPT !.kids = [k \in MapKeys |-> 0]]]
        Kid(hh, k) ==
            IF h[id].kids[k] = 0 THEN hh
            ELSE LET c == DeepCopyJSON(hh, h[id].kids[k]) IN [c.h EXCEPT ![n].kids[k] = c.id]
    IN [h |-> Kid(Kid(Kid(h0, "spec"), "forProvider"), "status"), id |-> n]

ResourceKinds == {"composite", "composed"}

\* A nil *Unstructured.
NilUnstructured(kind) == [kind |-> kind, root |-> 0]

LeafValues == [widgets |-> {1, 2}, conditions |-> {"True"}]

\* New(), or a nil resource.
InitCopy ==
    /\ IdleInt /\ IdleDiag /\ IdleReq /\ IdleBeta /\ IdleCtx
    /\ \E kind \in ResourceKinds :
           \/ res = NilUnstructured(kind) /\ heap = NoHeap
           \/ res = [kind |-> kind, root |-> 1] /\ heap = [NoHeap EXCEPT ![1] = FreshNode]
    /\ cpy = NoObj
    /\ ocall = NoObjCall

\* The resources a method can be called on.
Receivers ==
    (IF res.root # 0 THEN {"original"} ELSE {})
        \cup (IF cpy # NoObj /\ cpy.root # 0 THEN {"copy"} ELSE {})

RootOf(who) == IF who = "original" THEN res.root ELSE cpy.root

\* SetValue, SetInteger and SetConditions on the original or on the copy.
SetValue ==
    /\ \E who \in Receivers, p \in SetPaths :
           \E v \in LeafValues[p.leaf] :
               /\ heap' = PavedSetValue(heap, RootOf(who), p.keys, p.leaf, v)
               /\ ocall' = [op |-> "SetValue", arg |-> who, err |-> NoErr]
    /\ UNCHANGED <<res, cpy>>
    /\ UNCHANGED offObj

DeepCopy ==
    /\ cpy = NoObj
    /\ IF res.root = 0
       THEN cpy' = NilUnstructured(res.kind) /\ heap' = heap
       ELSE LET c == DeepCopyJSON(heap, res.root) IN
            cpy' = [kind |-> res.kind, root |-> c.id] /\ heap' = c.h
    /\ ocall' = [op |-> "DeepCopy", arg |-> 0, err |-> NoErr]
    /\ UNCHANGED res
    /\ UNCHANGED offObj

NextCopy == SetValue \/ DeepCopy

SpecCopy == InitCopy /\ [][NextCopy]_vars

(***************************************************************************)
(* DeepCopy: the claims.                                                   *)
(***************************************************************************)
\* The document under the map at id, as a value.
RECURSIVE DocumentAt(_, _)
DocumentAt(h, id) ==
    IF id = 0 THEN [missing |-> TRUE]
    ELSE [widgets |-> h[id].widgets, conditions |-> h[id].conditions,
          maps |-> [k \in MapKeys |-> DocumentAt(h, h[id].kids[k])]]

\* The value at a path of the document at id, UnusedNode's when a map of the
\* path is missing.
RECURSIVE ValueAt(_, _, _, _)
ValueAt(h, id, keys, leaf) ==
    IF id = 0 THEN UnusedNode[leaf]
    ELSE IF keys = <<>> THEN h[id][leaf]
    ELSE ValueAt(h, h[id].kids[Head(keys)], Tail(keys), leaf)

\* The addresses of the maps of the document at id.
RECURSIVE MapsUnder(_, _)
MapsUnder(h, id) ==
    IF id = 0 THEN {}
    ELSE {id} \cup UNION {MapsUnder(h, h[id].kids[k]) : k \in MapKeys}

\* DeepCopy returned nil for nil and an equal document otherwise; a call on the
\* copy left the original's document as it was, and a call on the original
\* left the copy's; the two documents have no map in common.
CopyIndependent ==
    /\ cpy = NoObj /\ cpy' # NoObj =>
           /\ cpy'.kind = res.kind
           /\ (res.root = 0) = (cpy'.root = 0)
           /\ DocumentAt(heap', cpy'.root) = DocumentAt(heap, res.root)
           /\ DocumentAt(heap', res'.root) = DocumentAt(heap, res.root)
    /\ cpy # NoObj /\ ocall'.op = "SetValue" =>
           /\ ocall'.arg = "copy" => DocumentAt(heap', res'.root) = DocumentAt(heap, res.root)
           /\ ocall'.arg = "original" => DocumentAt(heap', cpy'.root) = DocumentAt(heap, cpy.root)
    /\ cpy' # NoObj => MapsUnder(heap', res'.root) \cap MapsUnder(heap', cpy'.root) = {}

\* C20: DeepCopy of a composite or composed resource returns a resource whose
\* document equals the original's and shares no map with it at any depth: a
\* SetValue, SetInteger or SetConditions call on the copy leaves the original's
\* document unchanged and a call on the original leaves the copy's unchanged;
\* DeepCopy of a nil resource is nil.
C20_CopyIndependent == [][CopyIndependent]_vars

\* After the copy was made the copy was written to, the two documents differ at
\* spec.forProvider.widgets and agree at status.conditions.
C20_DeepWriteOnCopy ==
    /\ cpy # NoObj
    /\ ocall = [op |-> "SetValue", arg |-> "copy", err |-> NoErr]
    /\ ValueAt(heap, res.root, <<"spec", "forProvider">>, "widgets") = 1
    /\ ValueAt(heap, cpy.root, <<"spec", "forProvider">>, "widgets") = 2
    /\ ValueAt(heap, res.root, <<"status">>, "conditions") = "True"
    /\ ValueAt(heap, cpy.root, <<"status">>, "conditions") = "True"

(***************************************************************************)
(* SpecInput: request.GetInput.  The target is [shape, content]: an object *)
(* backed by unstructured content, or a typed struct with the one field    *)
(* spec.widgets, an int64.                                                 *)
(***************************************************************************)
\* The wire values an input holds: 9001, 9.001 and a string.
InputValues == {Val("number_value", "fin", 9001000), Val("number_value", "fin", 9001),
                Val("string_value", "fin", 1)}

\* req.GetInput(): nil when the request carries no input.
InputStructs == {NilStruct} \cup {StructOf(d) : d \in Docs(InputValues)}

\* The fields of the typed target.
TypedPaths == {"spec.widgets"}

TypedInto(n) == [shape |-> "typed", content |-> [EmptyDoc EXCEPT !["spec.widgets"] = Val("int64", "fin", n)]]

UnstructuredInto(d) == [shape |-> "unstructured", content |-> d]

Intos ==
    {TypedInto(n) : n \in {0, 7, 9001}}
        \cup {UnstructuredInto(d) : d \in {EmptyDoc, WidgetsDoc,
                                           [WidgetsDoc EXCEPT !["spec.other"] = Val("string", "fin", 1)]}}

\* json.Unmarshal of one member into the int64 field: a whole number is stored,
\* anything else is an error.
UnmarshalInt64(v) ==
    IF v.k = "number_value" /\ v.c = "fin" /\ v.n % 1000 = 0
    THEN [v |-> Val("int64", "fin", v.n \div 1000), err |-> NoErr]
    ELSE [v |-> Absent, err |-> Err("UnmarshalType", "")]

\* AsObject: a target with SetUnstructuredContent gets s.AsMap() as its content
\* (an empty map for a nil struct); a typed target gets the members of the
\* struct's JSON in key order, an unknown member or a value of the wrong type
\* ending the decoding with an error.
AsObjectInto(s, o) ==
    IF o.shape = "unstructured"
    THEN [obj |-> [o EXCEPT !.content = AsMap(s.fields)], err |-> NoErr]
    ELSE IF \E p \in Paths \ TypedPaths : s.fields[p] # Absent
    THEN [obj |-> o, err |-> Err("UnknownName", "cannot unmarshal JSON from %T into %T")]
    ELSE IF s.fields["spec.widgets"] = Absent
    THEN [obj |-> o, err |-> NoErr]
    ELSE LET u == UnmarshalInt64(s.fields["spec.widgets"]) IN
         IF u.err # NoErr
         THEN [obj |-> o, err |-> Wrap(u.err, "cannot unmarshal JSON from %T into %T")]
         ELSE [obj |-> [o EXCEPT !.content["spec.widgets"] = u.v], err |-> NoErr]

InitInput ==
    /\ IdleInt /\ IdleDiag /\ IdleReq /\ IdleBeta /\ IdleCtx
    /\ res \in Intos
    /\ cpy = NoObj
    /\ ocall = NoObjCall
    /\ heap = <<>>

GetInput ==
    /\ \E input \in InputStructs :
           LET a == AsObjectInto(input, res) IN
           /\ res' = a.obj
           /\ ocall' = [op |-> "GetInput", arg |-> [input |-> input, into |-> res],
                        err |-> Wrap(a.err, "cannot get function input %T from %T")]
    /\ UNCHANGED <<cpy, heap>>
    /\ UNCHANGED offObj

NextInput == GetInput

SpecInput == InitInput /\ [][NextInput]_vars

(***************************************************************************)
(* GetInput: the claims.                                                   *)
(***************************************************************************)
\* C21: GetInput on a request that carries no input returns a nil error and
\* leaves the supplied target unchanged, whether the target is a typed object
\* or a document-backed object that already holds content.
C21_AbsentInputLeavesTarget ==
    ocall.op = "GetInput" /\ ocall.arg.input.isnil =>
        ocall.err = NoErr /\ res = ocall.arg.into

\* GetInput without an input was called on a document-backed target that held
\* spec.widgets, and the target's document is empty afterwards.
C21_AbsentInputClearsDocument ==
    /\ ocall.op = "GetInput"
    /\ ocall.arg.input.isnil
    /\ ocall.arg.into = UnstructuredInto(WidgetsDoc)
    /\ ocall.err = NoErr
    /\ res = UnstructuredInto(EmptyDoc)

(***************************************************************************)
(* SpecCtx: the pipeline context.  A context pointer is "nil", "reqContext" *)
(* (the struct the request came with) or "fresh" (a struct SetContextKey   *)
(* made); ctx[p] is the Fields map of the struct at p.                     *)
(***************************************************************************)
ContextKeys == {"apiextensions.crossplane.io/environment", "other"}

\* *structpb.Value: a nil pointer or a string value.
ContextValues == {"nil", "a", "b"}

\* The Fields of the context a request comes with.
ContextFields ==
    {NilMap, EmptyMap} \cup
    {MapOf(kv) : kv \in UNION {[S -> ContextValues \ {"nil"}] : S \in (SUBSET ContextKeys) \ {{}}}}

\* req.GetContext().GetFields() and rsp.GetContext().GetFields()
GetFields(ptr, c) == IF ptr = "nil" THEN NilMap ELSE c[ptr]

InitCtx ==
    /\ IdleInt /\ IdleDiag /\ IdleBeta /\ IdleObj
    /\ \/ req = Request("", "nil", "nil", "nil") /\ ctx = [reqContext |-> NilMap, fresh |-> NilMap]
       \/ /\ req = Request("tag", "nil", "nil", "reqContext")
          /\ \E f \in ContextFields : ctx = [reqContext |-> f, fresh |-> NilMap]
    /\ st = Heap(EmptyState, EmptyState, EmptyState)
    /\ snap = st
    /\ rsp = NoRsp
    /\ ret = NoRet
    /\ got = NoGot

\* SetContextKey that makes a new container on every call.
SetContextKeyFresh ==
    /\ rsp.made
    /\ \E key \in ContextKeys, v \in ContextValues :
           /\ rsp' = [rsp EXCEPT !.context = "fresh"]
           /\ ctx' = [ctx EXCEPT !.fresh = MapPut(EmptyMap, key, v)]
           /\ ret' = [op |-> "SetContextKey", arg |-> [key |-> key, v |-> v], err |-> NoErr]
    /\ UNCHANGED <<req, st, snap, got>>
    /\ UNCHANGED offCtx

SetContextKey ==
    /\ rsp.made
    /\ \E key \in ContextKeys, v \in ContextValues :
           /\ IF GetFields(rsp.context, ctx).isnil
              THEN /\ rsp' = [rsp EXCEPT !.context = "fresh"]
                   /\ ctx' = [ctx EXCEPT !.fresh = MapPut(EmptyMap, key, v)]
              ELSE /\ rsp' = rsp
                   /\ ctx' = [ctx EXCEPT ![rsp.context] = MapPut(ctx[rsp.context], key, v)]
           /\ ret' = [op |-> "SetContextKey", arg |-> [key |-> key, v |-> v], err |-> NoErr]
    /\ UNCHANGED <<req, st, snap, got>>
    /\ UNCHANGED offCtx

\* GetContextKey of a request: [v, ok].
ContextKey(f, key) ==
    IF f.isnil THEN [v |-> "nil", ok |-> FALSE]
    ELSE IF key \in DOMAIN f.kv THEN [v |-> f.kv[key], ok |-> TRUE]
    ELSE [v |-> "nil", ok |-> FALSE]

\* GetContextKey, of the request or of a request that carries the context of
\* the response.
GetContextKey ==
    /\ \E ptr \in {req.context, rsp.context}, key \in ContextKeys :
           ret' = [op |-> "GetContextKey",
                   arg |-> [ptr |-> ptr, key |-> key, r |-> ContextKey(GetFields(ptr, ctx), key)],
                   err |-> NoErr]
    /\ UNCHANGED <<req, st, snap, rsp, got, ctx>>
    /\ UNCHANGED offCtx


NextCtx == To \/ SetContextKey \/ GetContextKey

SpecCtx == InitCtx /\ [][NextCtx]_vars

(***************************************************************************)
(* The context: the claims.                                                *)
(***************************************************************************)
\* The entries of a Fields map, none for a nil map.
EntriesOf(f) == IF f.isnil THEN EmptyKV ELSE f.kv

\* A SetContextKey step leaves the response with a container that maps the key
\* to the value and every other key to what it had; a GetContextKey step
\* returns the value and true for a key the context has, nil and false for a
\* key it has not or when there is no context.
ContextKept ==
    /\ ret'.op = "SetContextKey" =>
           LET before == EntriesOf(GetFields(rsp.context, ctx))
               after == GetFields(rsp'.context, ctx')
           IN  /\ ~after.isnil
               /\ DOMAIN after.kv = DOMAIN before \cup {ret'.arg.key}
               /\ after.kv[ret'.arg.key] = ret'.arg.v
               /\ \A k \in DOMAIN before : k # ret'.arg.key => after.kv[k] = before[k]
               /\ ContextKey(after, ret'.arg.key) = [v |-> ret'.arg.v, ok |-> TRUE]
    /\ ret'.op = "GetContextKey" =>
           LET entries == EntriesOf(GetFields(ret'.arg.ptr, ctx')) IN
           /\ ret'.err = NoErr
           /\ ret'.arg.r.ok = (ret'.arg.key \in DOMAIN entries)
           /\ ret'.arg.r.ok => ret'.arg.r.v = entries[ret'.arg.key]
           /\ ~ret'.arg.r.ok => ret'.arg.r.v = "nil"

\* C22: SetContextKey creates the context container when it is absent and
\* afterwards the context maps key to v and every other key to the value it had;
\* GetContextKey returns (v, true) for that key and (nil, false), never an
\* error, for an absent key or a request without context.
C22_ContextKept == [][ContextKept]_vars

\* The request had no context, a key was set on the response, and reading the
\* other key of the response's context gave nil and false.
C22_FreshContainerRead ==
    /\ req.context = "nil"
    /\ rsp.context = "fresh"
    /\ DOMAIN ctx.fresh.kv = {"other"}
    /\ ret.op = "GetContextKey"
    /\ ret.arg.ptr = "fresh"
    /\ ret.arg.key # "other"
    /\ ret.arg.r = [v |-> "nil", ok |-> FALSE]

(***************************************************************************)
(* Assembly and the request: the claims (SpecAsm).                         *)
(***************************************************************************)
\* C28: after rsp = To(req, ttl), the assembly calls on rsp leave the request's
\* desired state, its composite and its map of desired resources, and the
\* request's context as they were before To was called.  (Of the assembly calls
\* only SetContextKey writes to a context, and SpecAsm has no context to write
\* to: the formula is about the desired state.)
C28_RequestUntouched == rsp.made => st.reqDesired = snap.reqDesired

\* SetDesiredComposedResources on the response returned nil, and the request's
\* desired state now has a resource it did not come with.
C28_RequestGrewResource ==
    /\ rsp.made
    /\ req.desired = "reqDesired"
    /\ ret.op = "SetDesiredComposedResources"
    /\ ret.err = NoErr
    /\ "b" \in DOMAIN st.reqDesired.resources.kv
    /\ "b" \notin DOMAIN snap.reqDesired.resources.kv

\* What a failed assembly step leaves behind: the desired resources, by name,
\* are the ones from before the call, and so is the desired composite.
FailedCallInstalledNothing ==
    ret = NoRet /\ ret'.err # NoErr =>
        /\ ret'.op \in {"SetDesiredComposedResources", "SetDesiredResources"} =>
               st'[rsp'.desired].resources.kv = DesiredBefore.resources.kv
        /\ ret'.op = "SetDesiredCompositeResource" =>
               st'[rsp'.desired].composite = DesiredBefore.composite

\* C29: a failed assembly call installs nothing: when SetDesiredComposedResources
\* or SetDesiredResources returns an error none of the supplied resources has
\* been installed and the desired resources are the same as before the call;
\* when SetDesiredCompositeResource returns an error the desired composite is
\* the same as before the call.
C29_FailedCallInstallsNothing == [][FailedCallInstalledNothing]_vars

(***************************************************************************)
(* The compatibility shim, step by step: the claims (SpecBeta).            *)
(***************************************************************************)
\* The steps of a call in their order, and the message each transcoding step
\* wraps its error in.
StepOrder == <<"marshalReq", "unmarshalReq", "wrapped", "marshalRsp", "unmarshalRsp">>

StepMessage ==
    [marshalReq   |-> "cannot marshal v1beta1 RunFunctionRequest to protobuf bytes",
     unmarshalReq |-> "cannot unmarshal v1 RunFunctionRequest from v1beta1 protobuf bytes",
     marshalRsp   |-> "cannot marshal v1beta1 RunFunctionResponse to protobuf bytes",
     unmarshalRsp |-> "cannot unmarshal v1 RunFunctionResponse from v1beta1 protobuf bytes"]

\* A step of a call goes to the next step of the order or ends the call; the
\* wrapped server is called once, after the request was encoded and decoded
\* without error; a transcoding step that fails ends the call with its own
\* message; a call that has ended takes no further step.
StepsInOrder ==
    /\ bpc' # bpc =>
           \/ bpc = "idle" /\ bpc' = StepOrder[1]
           \/ \E k \in 1..(Len(StepOrder) - 1) : bpc = StepOrder[k] /\ bpc' = StepOrder[k + 1]
           \/ bpc \in DOMAIN StepMessage \cup {"wrapped"} /\ bpc' = "done"
    /\ garsp' # garsp =>
           /\ bpc = "wrapped" /\ ~garsp.called /\ garsp'.called
           /\ Marshal(BetaRequestSchema, breq).err = NoErr
           /\ Unmarshal(V1RequestSchema, Marshal(BetaRequestSchema, breq).b).err = NoErr
           /\ gareq = Unmarshal(V1RequestSchema, Marshal(BetaRequestSchema, breq).b).m
    /\ bpc \in DOMAIN StepMessage /\ bpc' = "done" /\ bpc # "unmarshalRsp" =>
           bret'.err # NoErr /\ bret'.err.path = StepMessage[bpc]
    /\ bpc = "unmarshalRsp" /\ bpc' = "done" /\ bret'.err # NoErr =>
           bret'.err.path = StepMessage[bpc]
    /\ bpc \in DOMAIN StepMessage /\ bpc' \notin {bpc, "done"} => bret' = NotReturned
    /\ bpc = "done" => UNCHANGED varsBeta

\* C24: in every BetaServer.RunFunction call the steps happen in the order
\* encode the legacy request, decode it as a v1 request, invoke the wrapped
\* handler, encode its response, decode it as a legacy response; the handler is
\* invoked at most once and only after both request steps succeeded; when a
\* step fails the call ends with a wrapped error whose message identifies the
\* step, no later step runs and nothing is retried.
C24_StepsInOrder == [][StepsInOrder]_vars

\* A request nested too deep was encoded, its decoding failed, and the call
\* ended with the message of that step without calling the wrapped server.
C24_RequestDecodeFailed ==
    /\ bpc = "done"
    /\ breq.form = "deep"
    /\ ~garsp.called
    /\ bret.err = Err("RecursionLimit", StepMessage.unmarshalReq)

\* C30: RunFunction returns either a response or an error, never both and never
\* neither: a non-nil error comes with a nil response and a nil error with a
\* non-nil response.
C30_ResponseOrError == bpc = "done" => ((bret.err # NoErr) = bret.rsp.isnil)

\* The decoding of the wrapped server's response failed, and RunFunction
\* returned the error next to the response it had begun to fill.
C30_ResponseAndError ==
    /\ bpc = "done"
    /\ garsp.called
    /\ garsp.err = NoErr
    /\ bret.err = Err("RecursionLimit", StepMessage.unmarshalRsp)
    /\ ~bret.rsp.isnil

(***************************************************************************)
(* SpecConc: concurrent RunFunction calls on one BetaServer.  The server   *)
(* has the one field wrapped, which RunFunction only reads; every other    *)
(* value of a call is a local of that call.  The variables of SpecBeta are *)
(* functions of the call here: bpc[i] is where call i is, bwire[k] the     *)
(* bytes in buffer k.                                                      *)
(***************************************************************************)
Calls == {1, 2}

\* The requests of the concurrent callers.
ConcRequests ==
    {Msg({"meta"}, {}, "ok"), Msg(DOMAIN BetaRequestSchema, UnknownTags, "ok"),
     Msg(DOMAIN BetaRequestSchema, {}, "badutf8"), Msg({"meta", "input"}, {}, "deep")}

\* What the wrapped server returns to them.
ConcOutcomes ==
    {[called |-> TRUE, rsp |-> m, err |-> NoErr] :
        m \in {NilMsg, Msg({"meta"}, {}, "ok"), Msg(DOMAIN V1ResponseSchema, {}, "ok"),
               Msg({"meta", "context"}, {}, "badutf8"), Msg({"meta", "desired"}, {}, "deep")}}
        \cup {[called |-> TRUE, rsp |-> NilMsg, err |-> Err("boom", "")]}

\* One buffer for all the calls of the server.
BufferOfServer(i) == 1

\* The buffer b of call i: a local of the call.
BufferOf(i) == i

InitConc ==
    /\ IdleInt /\ IdleDiag /\ IdleReq /\ IdleObj /\ IdleCtx
    /\ bpc = [i \in Calls |-> "idle"]
    /\ breq = [i \in Calls |-> NilMsg]
    /\ bwire = [i \in Calls |-> NoBytes]
    /\ gareq = [i \in Calls |-> NilMsg]
    /\ garsp = [i \in Calls |-> NotCalled]
    /\ bret = [i \in Calls |-> NotReturned]

\* Call i ends with an error.
ReturnError(i, err, message) ==
    /\ bret' = [bret EXCEPT ![i] = [rsp |-> NilMsg, err |-> Wrap(err, message)]]
    /\ bpc' = [bpc EXCEPT ![i] = "done"]

ConcRunFunction(i) ==
    /\ bpc[i] = "idle"
    /\ \E r \in ConcRequests : breq' = [breq EXCEPT ![i] = r]
    /\ bpc' = [bpc EXCEPT ![i] = "marshalReq"]
    /\ UNCHANGED <<bwire, gareq, garsp, bret>>
    /\ UNCHANGED offBeta

ConcMarshalRequest(i) ==
    /\ bpc[i] = "marshalReq"
    /\ LET m == Marshal(BetaRequestSchema, breq[i]) IN
       IF m.err # NoErr
       THEN /\ ReturnError(i, m.err, "cannot marshal v1beta1 RunFunctionRequest to protobuf bytes")
            /\ UNCHANGED bwire
       ELSE /\ bwire' = [bwire EXCEPT ![BufferOf(i)] = m.b]
            /\ bpc' = [bpc EXCEPT ![i] = "unmarshalReq"]
            /\ UNCHANGED bret
    /\ UNCHANGED <<breq, gareq, garsp>>
    /\ UNCHANGED offBeta

ConcUnmarshalRequest(i) ==
    /\ bpc[i] = "unmarshalReq"
    /\ LET u == Unmarshal(V1RequestSchema, bwire[BufferOf(i)]) IN
       IF u.err # NoErr
       THEN /\ ReturnError(i, u.err, "cannot unmarshal v1 RunFunctionRequest from v1beta1 protobuf bytes")
            /\ UNCHANGED gareq
       ELSE /\ gareq' = [gareq EXCEPT ![i] = u.m]
            /\ bpc' = [bpc EXCEPT ![i] = "wrapped"]
            /\ UNCHANGED bret
    /\ UNCHANGED <<breq, bwire, garsp>>
    /\ UNCHANGED offBeta

ConcWrappedRunFunction(i) ==
    /\ bpc[i] = "wrapped"
    /\ \E out \in ConcOutcomes :
           /\ garsp' = [garsp EXCEPT ![i] = out]
           /\ IF out.err # NoErr
              THEN /\ bret' = [bret EXCEPT ![i] = [rsp |-> NilMsg, err |-> out.err]]
                   /\ bpc' = [bpc EXCEPT ![i] = "done"]
              ELSE /\ bpc' = [bpc EXCEPT ![i] = "marshalRsp"]
                   /\ UNCHANGED bret
    /\ UNCHANGED <<breq, bwire, gareq>>
    /\ UNCHANGED offBeta

ConcMarshalResponse(i) ==
    /\ bpc[i] = "marshalRsp"
    /\ LET m == Marshal(V1ResponseSchema, garsp[i].rsp) IN
       IF m.err # NoErr
       THEN /\ ReturnError(i, m.err, "cannot marshal v1beta1 RunFunctionResponse to protobuf bytes")
            /\ UNCHANGED bwire
       ELSE /\ bwire' = [bwire EXCEPT ![BufferOf(i)] = m.b]
            /\ bpc' = [bpc EXCEPT ![i] = "unmarshalRsp"]
            /\ UNCHANGED bret
    /\ UNCHANGED <<breq, gareq, garsp>>
    /\ UNCHANGED offBeta

ConcUnmarshalResponse(i) ==
    /\ bpc[i] = "unmarshalRsp"
    /\ LET u == Unmarshal(BetaResponseSchema, bwire[BufferOf(i)]) IN
       bret' = [bret EXCEPT ![i] =
                   [rsp |-> u.m,
                    err |-> Wrap(u.err, "cannot unmarshal v1 RunFunctionResponse from v1beta1 protobuf bytes")]]
    /\ bpc' = [bpc EXCEPT ![i] = "done"]
    /\ UNCHANGED <<breq, bwire, gareq, garsp>>
    /\ UNCHANGED offBeta

NextConc ==
    \E i \in Calls :
        \/ ConcRunFunction(i)
        \/ ConcMarshalRequest(i)
        \/ ConcUnmarshalRequest(i)
        \/ ConcWrappedRunFunction(i)
        \/ ConcMarshalResponse(i)
        \/ ConcUnmarshalResponse(i)

SpecConc == InitConc /\ [][NextConc]_vars

(***************************************************************************)
(* Concurrent calls: the claims.                                           *)
(***************************************************************************)
\* The v1 request a call running alone hands to the wrapped server for r.
AloneRequest(r) == Unmarshal(V1RequestSchema, Marshal(BetaRequestSchema, r).b)

\* What a call running alone returns for the request r when the wrapped server,
\* if it gets called, answers out.
AloneReturn(r, out) ==
    LET m1 == Marshal(BetaRequestSchema, r)
        u1 == Unmarshal(V1RequestSchema, m1.b)
        m2 == Marshal(V1ResponseSchema, out.rsp)
        u2 == Unmarshal(BetaResponseSchema, m2.b)
    IN  IF m1.err # NoErr THEN [rsp |-> NilMsg, err |-> Wrap(m1.err, StepMessage.marshalReq)]
        ELSE IF u1.err # NoErr THEN [rsp |-> NilMsg, err |-> Wrap(u1.err, StepMessage.unmarshalReq)]
        ELSE IF out.err # NoErr THEN [rsp |-> NilMsg, err |-> out.err]
        ELSE IF m2.err # NoErr THEN [rsp |-> NilMsg, err |-> Wrap(m2.err, StepMessage.marshalRsp)]
        ELSE [rsp |-> u2.m, err |-> Wrap(u2.err, StepMessage.unmarshalRsp)]

\* C23: BetaServer keeps no mutable state between calls: in any interleaving of
\* concurrent RunFunction calls each call hands the wrapped server the request
\* it would hand it when running alone and returns what it would return alone;
\* a transcoding failure or a handler error of one call does not change the
\* response or the error of another.
C23_CallsIndependent ==
    \A i \in Calls :
        /\ garsp[i].called =>
               AloneRequest(breq[i]).err = NoErr /\ gareq[i] = AloneRequest(breq[i]).m
        /\ bpc[i] = "done" => bret[i] = AloneReturn(breq[i], garsp[i])

\* Call 1 failed to encode its request while call 2 was in flight, and call 2
\* returned the response of its own wrapped call.
C23_OneFailedOneServed ==
    /\ bpc = [i \in Calls |-> "done"]
    /\ bret[1].err = Err("InvalidUTF8", StepMessage.marshalReq)
    /\ breq[2].unknown = UnknownTags
    /\ garsp[2].rsp.set = DOMAIN V1ResponseSchema
    /\ bret[2].err = NoErr
    /\ bret[2].rsp.set = DOMAIN BetaResponseSchema

(***************************************************************************)
(* SpecTrip: a function makes its response with response.To, reads the     *)
(* desired composed resources of the request and writes what it read back  *)
(* into the response.                                                      *)
(***************************************************************************)
\* The composed resources of the requests: with content, empty or without a
\* struct, with and without connection details, in each readiness.
TripResources ==
    {Resource(s, cd, ready) : s \in {WidgetsStruct, StructOf(EmptyDoc), NilStruct},
                              cd \in {"nil", "some"}, ready \in WireReady}

TripMaps ==
    {NilMap} \cup
    {MapOf(kv) : kv \in UNION {[S -> TripResources] : S \in (SUBSET Names) \ {{}}}}

InitTrip ==
    /\ IdleInt /\ IdleDiag /\ IdleBeta /\ IdleObj /\ IdleCtx
    /\ \E d \in {"nil", "reqDesired"} : req = Request("tag", "nil", d, "nil")
    /\ \E m \in TripMaps :
           st = Heap(EmptyState,
                     IF req.desired = "nil" THEN EmptyState
                     ELSE [composite |-> NilResource, resources |-> m],
                     EmptyState)
    /\ snap = st
    /\ rsp = NoRsp
    /\ ret = NoRet
    /\ got = NoGot

\* SetDesiredComposedResources(rsp, d) for the d that the last
\* GetDesiredComposedResources(req) returned.
SetDesiredComposedResourcesBack ==
    /\ rsp.made
    /\ ret = NoRet
    /\ got.op = "GetDesiredComposedResources"
    /\ got.err = NoErr
    /\ \E order \in Orders(DOMAIN got.m.kv) :
           LET loop == SetComposedLoop(WithResources[DesiredPtr].resources, got.m.kv, order) IN
           /\ rsp' = [rsp EXCEPT !.desired = DesiredPtr]
           /\ st' = [WithResources EXCEPT ![DesiredPtr].resources = loop.m]
           /\ ret' = [op |-> "SetDesiredComposedResources", arg |-> got.m.kv, err |-> loop.err]
    /\ UNCHANGED <<req, snap, got>>
    /\ UNCHANGED offReq

NextTrip ==
    \/ To
    \/ Proceed
    \/ GetDesiredComposedResources
    \/ SetDesiredComposedResourcesBack

SpecTrip == InitTrip /\ [][NextTrip]_vars

\* The desired composed resources of the request as it arrived.
ArrivedResources == IF req.desired = "nil" THEN EmptyKV ELSE snap[req.desired].resources.kv

NoConnectionDetails == \A n \in DOMAIN ArrivedResources : ArrivedResources[n].cd = "nil"

\* C27: for a request whose desired composed resources carry no connection
\* details, writing back what GetDesiredComposedResources returned succeeds and
\* leaves the response with the request's resource names, each with the content
\* and the readiness it arrived with.
C27_ReadWriteBackIsIdentity ==
    (ret.op = "SetDesiredComposedResources" /\ NoConnectionDetails) =>
        /\ ret.err = NoErr
        /\ DOMAIN DesiredBefore.resources.kv = DOMAIN ArrivedResources
        /\ \A n \in DOMAIN ArrivedResources :
            /\ DesiredBefore.resources.kv[n].resource.fields = ArrivedResources[n].resource.fields
            /\ DesiredBefore.resources.kv[n].ready = ArrivedResources[n].ready
            /\ DesiredBefore.resources.kv[n].cd = "nil"

\* Written back: a resource with content that is not ready and a resource that
\* arrived without a struct.
C27_WroteBackTwo ==
    /\ ret.op = "SetDesiredComposedResources"
    /\ NoConnectionDetails
    /\ DOMAIN ArrivedResources = {"a", "b"}
    /\ ArrivedResources["a"] = Resource(WidgetsStruct, "nil", "READY_FALSE")
    /\ ArrivedResources["b"] = BareResource
    /\ DesiredBefore.resources.kv["b"].resource = StructOf(EmptyDoc)

====
